---- MODULE Spec2Model ----
(***************************************************************************)
(* Entelech funnel analytics: the relational store (lead_sources,          *)
(* prospects, discovery_calls, proposals, contracts, funnel_stages,        *)
(* prospect_journey), the one write path of FunnelAnalyticsEngine          *)
(* (track_lead_source) and its read-only analytic queries.                 *)
(*                                                                         *)
(* Conventions.  A table is a sequence of rows; a row's AUTOINCREMENT id   *)
(* is its index.  NULL is 0 for an id and NullTs for a timestamp.  A       *)
(* stored TIMESTAMP is the text 'YYYY-MM-DD HH:MM:SS', modelled as          *)
(* [day, tod]; a datetime.date parameter is bound by sqlite3 as the text    *)
(* 'YYYY-MM-DD', modelled as its day number.  A float that the code         *)
(* obtains by division is kept exact as a fraction <<num, den>>, den > 0.  *)
(***************************************************************************)
EXTENDS Integers, Sequences, FiniteSets, TLC

VARIABLES lead_sources, prospects, discovery_calls, proposals, contracts,
          funnel_stages, prospect_journey, now, result,
          connections, db_lock, history

store == <<lead_sources, prospects, discovery_calls, proposals, contracts,
           funnel_stages, prospect_journey>>
engines == <<connections, db_lock, history>>
vars == <<lead_sources, prospects, discovery_calls, proposals, contracts,
          funnel_stages, prospect_journey, now, result,
          connections, db_lock, history>>

(* ------------------------------- bounds ------------------------------- *)
MaxProspects == 2
MaxChildRows == 3
MaxDay == 2
TicksPerDay == 1
MaxSources == 2
MaxValue == 2
MaxContracts == 2
MaxJourney == 2
MaxStageVisited == 2
MaxInactive == 1
MaxNow == 3
MaxEntered == 5
MaxHalfDays == 30
MaxConnections == 2
MaxCostProspects == 3

Days == 1..MaxDay
Timestamps == [day : Days, tod : 0..(TicksPerDay - 1)]
NullTs == [day |-> 0, tod |-> 0]
\* An email address is an opaque key.
Emails == 1..MaxProspects
CallStatuses == {"scheduled", "completed"}
ContractStatuses == {"active", "cancelled"}
NoResult == [op |-> "none"]

(* ----------------- engines sharing the one database file --------------- *)
\* Each FunnelAnalyticsEngine holds its own sqlite3 connection to the file.
Connections == 1..MaxConnections

\* attribution_data: None, {} and a dictionary naming a category that the
\* CHECK constraint of lead_sources rejects.
AttributionData ==
  {[given |-> FALSE, category |-> "other", cost_per_lead |-> 0],
   [given |-> TRUE, category |-> "other", cost_per_lead |-> 0],
   [given |-> TRUE, category |-> "podcast", cost_per_lead |-> 0]}
NoData == [given |-> FALSE, category |-> "other", cost_per_lead |-> 0]

\* The source and the rows named so found at the start of a call (kept to
\* compare the effect of repeated calls).
NoObservation == [lead_source_ids |-> {}, rows_named |-> 0]

\* A connection outside track_lead_source: no locals; in_transaction and
\* shared (a read lock kept by an open transaction) outlive the call.
IdleConnection ==
  [pc |-> "idle", prospect_email |-> 0, source_name |-> "", attribution_data |-> NoData,
   source_id |-> 0, in_transaction |-> FALSE, shared |-> FALSE, closed |-> FALSE,
   repeat |-> FALSE, base |-> NoObservation]

\* The engine that serves the analytic requests (the dashboard's one engine).
TheEngine == 1
\* self.conn has been closed: every statement raises sqlite3.ProgrammingError.
Closed == connections[TheEngine].closed

\* The file's write lock: the connection holding RESERVED (0: none), whether
\* it went on to PENDING, and the pages it has written but not committed.
NoLock == [writer |-> 0, pending |-> FALSE, lead_sources |-> << >>, prospects |-> << >>]

\* The last call that returned, remembered only where calls are recorded.
NoCall == [conn |-> 0, recording |-> FALSE]

NoEngineActivity ==
  /\ connections = [c \in Connections |-> IdleConnection]
  /\ db_lock = NoLock
  /\ history = NoCall

(* ------------------------- exact fractions ---------------------------- *)
Frac(n, d) == <<n, d>>
FracLt(a, b) == a[1] * b[2] < b[1] * a[2]
FracLe(a, b) == a[1] * b[2] <= b[1] * a[2]
FracEq(a, b) == a[1] * b[2] = b[1] * a[2]
Whole(n) == <<n, 1>>

(* -------------------------- text comparison --------------------------- *)
\* 'YYYY-MM-DD' <= 'YYYY-MM-DD HH:MM:SS' as texts: a proper prefix sorts first.
DateLeqTimestamp(d, ts) == d <= ts.day
\* 'YYYY-MM-DD HH:MM:SS' <= 'YYYY-MM-DD' as texts: only for an earlier day.
TimestampLeqDate(ts, d) == ts.day < d
\* column BETWEEN ? AND ? with both parameters bound from datetime.date.
Between(ts, lo, hi) == DateLeqTimestamp(lo, ts) /\ TimestampLeqDate(ts, hi)

(* ------------------------------ the store ------------------------------ *)
\* populate_sample_data's reference funnel: (stage_name, stage_order, expected_duration_days).
StageCatalog ==
  << [stage_name |-> "Lead Generated", stage_order |-> 1, expected_duration_days |-> 1, is_active |-> 1],
     [stage_name |-> "Discovery Call Scheduled", stage_order |-> 2, expected_duration_days |-> 3, is_active |-> 1],
     [stage_name |-> "Discovery Call Completed", stage_order |-> 3, expected_duration_days |-> 1, is_active |-> 1],
     [stage_name |-> "Proposal Sent", stage_order |-> 4, expected_duration_days |-> 7, is_active |-> 1],
     [stage_name |-> "Proposal Under Review", stage_order |-> 5, expected_duration_days |-> 14, is_active |-> 1],
     [stage_name |-> "Contract Negotiation", stage_order |-> 6, expected_duration_days |-> 7, is_active |-> 1],
     [stage_name |-> "Contract Signed", stage_order |-> 7, expected_duration_days |-> 1, is_active |-> 1],
     [stage_name |-> "Lost/Disqualified", stage_order |-> 8, expected_duration_days |-> 0, is_active |-> 1] >>

Init ==
  /\ lead_sources = << >>
  /\ prospects = << >>
  /\ discovery_calls = << >>
  /\ proposals = << >>
  /\ contracts = << >>
  /\ funnel_stages = StageCatalog
  /\ prospect_journey = << >>
  /\ now = [day |-> 1, tod |-> 0]
  /\ NoEngineActivity
  /\ result = NoResult

ChildRows == Len(discovery_calls) + Len(proposals) + Len(contracts)

(* ------------- rows written by the upstream business processes --------- *)
\* INSERT INTO prospects: email is UNIQUE NOT NULL, lead_source_id is nullable.
InsertProspectUpTo(limit, email, src, created) ==
  /\ Len(prospects) < limit
  /\ \A i \in DOMAIN prospects : prospects[i].email # email
  /\ prospects' = Append(prospects, [email |-> email, lead_source_id |-> src,
                                     created_at |-> created, updated_at |-> created])
  /\ result' = NoResult
  /\ UNCHANGED engines
  /\ UNCHANGED <<lead_sources, discovery_calls, proposals, contracts,
                 funnel_stages, prospect_journey, now>>

InsertProspect(email, src, created) == InsertProspectUpTo(MaxProspects, email, src, created)

\* INSERT INTO discovery_calls.
InsertDiscoveryCall(p, status) ==
  /\ ChildRows < MaxChildRows
  /\ p \in DOMAIN prospects
  /\ discovery_calls' = Append(discovery_calls, [prospect_id |-> p, call_status |-> status])
  /\ result' = NoResult
  /\ UNCHANGED engines
  /\ UNCHANGED <<lead_sources, prospects, proposals, contracts,
                 funnel_stages, prospect_journey, now>>

\* INSERT INTO proposals.
InsertProposal(p) ==
  /\ ChildRows < MaxChildRows
  /\ p \in DOMAIN prospects
  /\ proposals' = Append(proposals, [prospect_id |-> p])
  /\ result' = NoResult
  /\ UNCHANGED engines
  /\ UNCHANGED <<lead_sources, prospects, discovery_calls, contracts,
                 funnel_stages, prospect_journey, now>>

\* INSERT INTO contracts.
InsertContract(p, value, mrr, status, signed) ==
  /\ ChildRows < MaxChildRows
  /\ p \in DOMAIN prospects
  /\ contracts' = Append(contracts, [prospect_id |-> p, contract_value |-> value,
                                     monthly_recurring_revenue |-> mrr,
                                     contract_status |-> status, signed_at |-> signed])
  /\ result' = NoResult
  /\ UNCHANGED engines
  /\ UNCHANGED <<lead_sources, prospects, discovery_calls, proposals,
                 funnel_stages, prospect_journey, now>>

(* ----------------------- calculate_conversion_rates -------------------- *)
CallsOf(p) == {i \in DOMAIN discovery_calls : discovery_calls[i].prospect_id = p}
ProposalsOf(p) == {i \in DOMAIN proposals : proposals[i].prospect_id = p}
ContractsOf(p) == {i \in DOMAIN contracts : contracts[i].prospect_id = p}
\* The right side of a LEFT JOIN: the matching rows, or one all-NULL row.
LeftJoin(S) == IF S = {} THEN {0} ELSE S

\* WHERE p.created_at BETWEEN ? AND ? {source_filter}; the filter is added only
\* when lead_source_id is truthy (neither None nor 0, both written 0 here).
FunnelProspects(date_range, lead_source_id) ==
  {p \in DOMAIN prospects :
     /\ Between(prospects[p].created_at, date_range[1], date_range[2])
     /\ (lead_source_id # 0 => prospects[p].lead_source_id = lead_source_id)}

\* FROM prospects p LEFT JOIN discovery_calls dc LEFT JOIN proposals pr LEFT JOIN contracts c.
FunnelJoin(date_range, lead_source_id) ==
  UNION {{[p |-> p, dc |-> a, pr |-> b, c |-> k] :
            a \in LeftJoin(CallsOf(p)), b \in LeftJoin(ProposalsOf(p)),
            k \in LeftJoin(ContractsOf(p))} :
         p \in FunnelProspects(date_range, lead_source_id)}

\* COUNT(DISTINCT CASE WHEN <cond> THEN p.prospect_id END), rows being those where <cond> holds.
CountDistinctProspects(rows) == Cardinality({r.p : r \in rows})

RECURSIVE SumContractValue(_)
\* SUM(c.contract_value) over the joined rows (NULL rows are skipped).
SumContractValue(rows) ==
  IF rows = {} THEN 0
  ELSE LET r == CHOOSE x \in rows : TRUE
       IN (IF r.c = 0 THEN 0 ELSE contracts[r.c].contract_value)
          + SumContractValue(rows \ {r})

RECURSIVE SumSalesCycle(_)
\* The sum of julianday(c.signed_at) - julianday(p.created_at) over the joined
\* rows that have a contract, in ticks.
SumSalesCycle(rows) ==
  IF rows = {} THEN 0
  ELSE LET r == CHOOSE x \in rows : TRUE
       IN (IF r.c = 0 THEN 0
           ELSE (contracts[r.c].signed_at.day * TicksPerDay + contracts[r.c].signed_at.tod)
                - (prospects[r.p].created_at.day * TicksPerDay + prospects[r.p].created_at.tod))
          + SumSalesCycle(rows \ {r})

\* FROM lead_sources ls JOIN prospects p ON ls.source_id = p.lead_source_id
\* WHERE p.created_at BETWEEN ? AND ?: one row per prospect.
CostJoin(date_range) ==
  {p \in DOMAIN prospects :
     /\ prospects[p].lead_source_id \in DOMAIN lead_sources
     /\ Between(prospects[p].created_at, date_range[1], date_range[2])}

RECURSIVE SumCostPerLead(_)
SumCostPerLead(ps) ==
  IF ps = {} THEN 0
  ELSE LET p == CHOOSE x \in ps : TRUE
       IN lead_sources[prospects[p].lead_source_id].cost_per_lead + SumCostPerLead(ps \ {p})

\* cost_per_lead: the filtered source's, 0 if there is no such source; without
\* a filter AVG(ls.cost_per_lead) over the joined rows, 0 if NULL or 0.
CostPerLead(date_range, lead_source_id) ==
  IF lead_source_id # 0
  THEN IF lead_source_id \in DOMAIN lead_sources
       THEN Whole(lead_sources[lead_source_id].cost_per_lead) ELSE Whole(0)
  ELSE IF CostJoin(date_range) = {} THEN Whole(0)
       ELSE Frac(SumCostPerLead(CostJoin(date_range)), Cardinality(CostJoin(date_range)))

\* Rate without the percent scaling.
Rate_NoPercent(x, y) == IF y > 0 THEN Frac(x, y) ELSE Whole(0)

\* (x / y * 100) if y > 0 else 0.
Rate(x, y) == IF y > 0 THEN Frac(x * 100, y) ELSE Whole(0)

ConversionMetrics(date_range, lead_source_id) ==
  LET rows == FunnelJoin(date_range, lead_source_id)
      total_leads == CountDistinctProspects(rows)
      discovery_scheduled == CountDistinctProspects({r \in rows : r.dc # 0})
      discovery_completed ==
        CountDistinctProspects({r \in rows :
          r.dc # 0 /\ discovery_calls[r.dc].call_status = "completed"})
      proposals_sent == CountDistinctProspects({r \in rows : r.pr # 0})
      contracts_signed == CountDistinctProspects({r \in rows : r.c # 0})
      contract_rows == Cardinality({r \in rows : r.c # 0})
      total_revenue == SumContractValue(rows)
      avg_deal_size == IF contract_rows = 0 THEN Whole(0)
                       ELSE Frac(total_revenue, contract_rows)
      cost_per_lead == CostPerLead(date_range, lead_source_id)
  IN [op |-> "calculate_conversion_rates",
      date_range |-> date_range,
      lead_source_id |-> lead_source_id,
      total_leads |-> total_leads,
      discovery_calls_scheduled |-> discovery_scheduled,
      discovery_calls_completed |-> discovery_completed,
      proposals_sent |-> proposals_sent,
      contracts_signed |-> contracts_signed,
      total_revenue |-> total_revenue,
      avg_deal_size |-> avg_deal_size,
      avg_sales_cycle_days |->
        IF contract_rows = 0 THEN Whole(0)
        ELSE Frac(SumSalesCycle(rows), contract_rows * TicksPerDay),
      lead_to_discovery_rate |-> Rate(discovery_scheduled, total_leads),
      discovery_to_proposal_rate |-> Rate(proposals_sent, discovery_completed),
      proposal_to_contract_rate |-> Rate(contracts_signed, proposals_sent),
      overall_conversion_rate |-> Rate(contracts_signed, total_leads),
      cost_per_acquisition |->
        IF contracts_signed > 0
        THEN Frac(cost_per_lead[1] * total_leads, cost_per_lead[2] * contracts_signed)
        ELSE Whole(0),
      lifetime_value |-> avg_deal_size]

\* except Exception: return ConversionMetrics(0, 0, 0, 0, 0, 0, 0, 0, 0, 0, 0, 0, 0, 0).
ZeroMetrics(date_range, lead_source_id) ==
  [op |-> "calculate_conversion_rates",
   date_range |-> date_range,
   lead_source_id |-> lead_source_id,
   total_leads |-> 0,
   discovery_calls_scheduled |-> 0,
   discovery_calls_completed |-> 0,
   proposals_sent |-> 0,
   contracts_signed |-> 0,
   total_revenue |-> 0,
   avg_deal_size |-> Whole(0),
   avg_sales_cycle_days |-> Whole(0),
   lead_to_discovery_rate |-> Whole(0),
   discovery_to_proposal_rate |-> Whole(0),
   proposal_to_contract_rate |-> Whole(0),
   overall_conversion_rate |-> Whole(0),
   cost_per_acquisition |-> Whole(0),
   lifetime_value |-> Whole(0)]

\* The metrics the call returns: the computed ones, or the zeroed record when
\* a statement raised.
ConversionRates(date_range, lead_source_id) ==
  IF Closed THEN ZeroMetrics(date_range, lead_source_id)
  ELSE ConversionMetrics(date_range, lead_source_id)

calculate_conversion_rates(date_range, lead_source_id) ==
  /\ result' = ConversionRates(date_range, lead_source_id)
  /\ UNCHANGED <<store, now, engines>>

\* (start, end) of a request; the end may lie after the last stored day.
DateRanges == {dr \in (1..(MaxDay + 1)) \X (1..(MaxDay + 1)) : dr[1] <= dr[2]}

(* --------------------- conversion analytics alone ---------------------- *)
NextConv ==
  \/ \E s \in 0..1, c \in Timestamps : InsertProspect(Len(prospects) + 1, s, c)
  \/ \E p \in 1..MaxProspects, st \in CallStatuses : InsertDiscoveryCall(p, st)
  \/ \E p \in 1..MaxProspects : InsertProposal(p)
  \/ \E p \in 1..MaxProspects, v \in 1..MaxValue, st \in ContractStatuses :
        InsertContract(p, v, 0, st, [day |-> 1, tod |-> 0])
  \/ \E dr \in DateRanges, f \in 0..1 : calculate_conversion_rates(dr, f)

SpecConv == Init /\ [][NextConv]_vars

(* -------------------------- identify_bottlenecks ----------------------- *)
\* julianday(ts), in ticks of 1/TicksPerDay day.
julianday(ts) == ts.day * TicksPerDay + ts.tod

\* INSERT INTO prospect_journey: entered_at defaults to CURRENT_TIMESTAMP, exited_at to NULL.
InsertJourney(p, s) ==
  /\ Len(prospect_journey) < MaxJourney
  /\ p \in 1..MaxProspects
  /\ s \in DOMAIN funnel_stages
  /\ prospect_journey' = Append(prospect_journey,
        [prospect_id |-> p, stage_id |-> s, entered_at |-> now, exited_at |-> NullTs])
  /\ result' = NoResult
  /\ UNCHANGED engines
  /\ UNCHANGED <<lead_sources, prospects, discovery_calls, proposals, contracts,
                 funnel_stages, now>>

\* UPDATE prospect_journey SET exited_at = CURRENT_TIMESTAMP: the prospect leaves the stage.
ExitJourney(j) ==
  /\ j \in DOMAIN prospect_journey
  /\ prospect_journey[j].exited_at = NullTs
  /\ prospect_journey' = [prospect_journey EXCEPT ![j].exited_at = now]
  /\ result' = NoResult
  /\ UNCHANGED engines
  /\ UNCHANGED <<lead_sources, prospects, discovery_calls, proposals, contracts,
                 funnel_stages, now>>

\* UPDATE funnel_stages SET is_active = 0: a stage is retired from the pipeline.
DeactivateStage(s) ==
  /\ s \in DOMAIN funnel_stages
  /\ funnel_stages[s].is_active = 1
  /\ Cardinality({x \in DOMAIN funnel_stages : funnel_stages[x].is_active = 0}) < MaxInactive
  /\ funnel_stages' = [funnel_stages EXCEPT ![s].is_active = 0]
  /\ result' = NoResult
  /\ UNCHANGED engines
  /\ UNCHANGED <<lead_sources, prospects, discovery_calls, proposals, contracts,
                 prospect_journey, now>>

\* The wall clock moves on by one day.
AdvanceClock ==
  /\ now.day < MaxNow
  /\ now' = [now EXCEPT !.day = @ + 1]
  /\ result' = NoResult
  /\ UNCHANGED engines
  /\ UNCHANGED store

stage_recommendations(stage_name) ==
  CASE stage_name = "Lead Generated" ->
         << "Implement lead scoring to prioritize high-quality prospects",
            "Create automated qualification sequences",
            "Review lead source quality and adjust targeting" >>
    [] stage_name = "Discovery Call Scheduled" ->
         << "Improve initial outreach messaging and value proposition",
            "Implement calendar booking automation",
            "Create urgency with limited-time offers or consultations" >>
    [] stage_name = "Discovery Call Completed" ->
         << "Reduce no-show rates with confirmation sequences",
            "Train sales team on discovery call best practices",
            "Implement call recording and analysis for improvement" >>
    [] stage_name = "Proposal Sent" ->
         << "Streamline discovery-to-proposal process",
            "Create proposal templates for faster turnaround",
            "Implement better qualification to ensure proposal-ready prospects" >>
    [] stage_name = "Proposal Under Review" ->
         << "Create structured follow-up sequences",
            "Implement proposal tracking and engagement analytics",
            "Add social proof and case studies to proposals" >>
    [] stage_name = "Contract Negotiation" ->
         << "Streamline contract terms and reduce complexity",
            "Train team on objection handling and negotiation",
            "Create flexible pricing options and packages" >>
    [] OTHER -> << >>

\* Thresholds of the severity rules.
HighConversion == 50
MediumConversion == 70
HighDuration == Whole(2)
MediumDuration == Frac(15, 10)
HighStuck == Frac(3, 10)
MediumStuck == Frac(2, 10)
MaxRecommendations == 5

\* The recommendations without the final cut to the first five.
generate_bottleneck_recommendations_Uncut(stage_name, conversion_rate, duration_factor, stuck_factor) ==
  stage_recommendations(stage_name)
  \o (IF FracLt(conversion_rate, Whole(HighConversion))
      THEN << "URGENT: Review and improve qualification criteria",
              "Analyze lost prospects for common patterns" >>
      ELSE << >>)
  \o (IF FracLt(HighDuration, duration_factor)
      THEN << "Implement automated follow-up sequences",
              "Set clear timelines and next steps with prospects" >>
      ELSE << >>)
  \o (IF FracLt(HighStuck, stuck_factor)
      THEN << "Create re-engagement campaigns for stalled prospects",
              "Implement stage-specific nurturing content" >>
      ELSE << >>)

generate_bottleneck_recommendations(stage_name, conversion_rate, duration_factor, stuck_factor) ==
  LET recs ==
        stage_recommendations(stage_name)
        \o (IF FracLt(conversion_rate, Whole(HighConversion))
            THEN << "URGENT: Review and improve qualification criteria",
                    "Analyze lost prospects for common patterns" >>
            ELSE << >>)
        \o (IF FracLt(HighDuration, duration_factor)
            THEN << "Implement automated follow-up sequences",
                    "Set clear timelines and next steps with prospects" >>
            ELSE << >>)
        \o (IF FracLt(HighStuck, stuck_factor)
            THEN << "Create re-engagement campaigns for stalled prospects",
                    "Implement stage-specific nurturing content" >>
            ELSE << >>)
  IN SubSeq(recs, 1, IF Len(recs) < MaxRecommendations THEN Len(recs) ELSE MaxRecommendations)

\* The severity rules with the HIGH test on duration left out.
Severity_NoDuration(conversion_rate, duration_factor, stuck_factor) ==
  IF FracLt(conversion_rate, Whole(HighConversion)) \/ FracLt(HighStuck, stuck_factor)
  THEN "HIGH"
  ELSE IF \/ FracLt(conversion_rate, Whole(MediumConversion))
          \/ FracLt(MediumDuration, duration_factor)
          \/ FracLt(MediumStuck, stuck_factor)
       THEN "MEDIUM"
       ELSE "LOW"

\* The severity rules with the conversion tests turned around: a stage is
\* flagged for a high conversion rate instead of a low one.
Severity_ConversionAbove(conversion_rate, duration_factor, stuck_factor) ==
  IF \/ FracLt(Whole(HighConversion), conversion_rate)
     \/ FracLt(HighDuration, duration_factor)
     \/ FracLt(HighStuck, stuck_factor)
  THEN "HIGH"
  ELSE IF \/ FracLt(Whole(MediumConversion), conversion_rate)
          \/ FracLt(MediumDuration, duration_factor)
          \/ FracLt(MediumStuck, stuck_factor)
       THEN "MEDIUM"
       ELSE "LOW"

Severity(conversion_rate, duration_factor, stuck_factor) ==
  IF \/ FracLt(conversion_rate, Whole(HighConversion))
     \/ FracLt(HighDuration, duration_factor)
     \/ FracLt(HighStuck, stuck_factor)
  THEN "HIGH"
  ELSE IF \/ FracLt(conversion_rate, Whole(MediumConversion))
          \/ FracLt(MediumDuration, duration_factor)
          \/ FracLt(MediumStuck, stuck_factor)
       THEN "MEDIUM"
       ELSE "LOW"

\* The loop body of identify_bottlenecks: one row of the stage query to one
\* BottleneckAnalysis.  avg_duration_days is a fraction of days.
AnalyzeStage(row) ==
  LET prospects_entered == row.prospects_entered
      prospects_exited == row.prospects_exited
      avg_duration == row.avg_duration_days
      expected_duration == row.expected_duration_days
      prospects_stuck == row.prospects_stuck
      conversion_rate == Rate(prospects_exited, prospects_entered)
      duration_factor ==
        IF expected_duration > 0
        THEN Frac(avg_duration[1], avg_duration[2] * expected_duration)
        ELSE Whole(1)
      stuck_factor ==
        IF prospects_entered > 0 THEN Frac(prospects_stuck, prospects_entered)
        ELSE Whole(0)
  IN [stage_name |-> row.stage_name,
      conversion_rate |-> conversion_rate,
      avg_duration_days |-> avg_duration,
      prospects_stuck |-> prospects_stuck,
      bottleneck_severity |-> Severity(conversion_rate, duration_factor, stuck_factor),
      recommendations |->
        generate_bottleneck_recommendations(row.stage_name, conversion_rate,
                                            duration_factor, stuck_factor)]

\* LEFT JOIN prospect_journey pj ON fs.stage_id = pj.stage_id AND pj.entered_at BETWEEN ? AND ?.
JourneyRows(s, date_range) ==
  {j \in DOMAIN prospect_journey :
     /\ prospect_journey[j].stage_id = s
     /\ Between(prospect_journey[j].entered_at, date_range[1], date_range[2])}

\* The time a visit has lasted, in ticks: to exited_at, or to 'now' while open.
VisitTicks(j) ==
  IF prospect_journey[j].exited_at # NullTs
  THEN julianday(prospect_journey[j].exited_at) - julianday(prospect_journey[j].entered_at)
  ELSE julianday(now) - julianday(prospect_journey[j].entered_at)

RECURSIVE SumVisitTicks(_)
SumVisitTicks(js) ==
  IF js = {} THEN 0
  ELSE LET j == CHOOSE x \in js : TRUE
       IN VisitTicks(j) + SumVisitTicks(js \ {j})

\* The stage query with the visits counted instead of the distinct prospects
\* among those that left the stage.
StageQueryRow_CountVisits(s, date_range) ==
  LET js == JourneyRows(s, date_range)
      expected == funnel_stages[s].expected_duration_days
  IN [stage_name |-> funnel_stages[s].stage_name,
      stage_order |-> funnel_stages[s].stage_order,
      expected_duration_days |-> expected,
      prospects_entered |-> Cardinality({prospect_journey[j].prospect_id : j \in js}),
      prospects_exited |->
        Cardinality({x \in js : prospect_journey[x].exited_at # NullTs}),
      avg_duration_days |->
        IF js = {} THEN Whole(0)
        ELSE Frac(SumVisitTicks(js), Cardinality(js) * TicksPerDay),
      prospects_stuck |->
        Cardinality({prospect_journey[j].prospect_id :
                       j \in {x \in js :
                                /\ prospect_journey[x].exited_at = NullTs
                                /\ julianday(now) - julianday(prospect_journey[x].entered_at)
                                     > expected * TicksPerDay}})]

\* One row of the stage query (the SELECT list, grouped by stage).
StageQueryRow(s, date_range) ==
  LET js == JourneyRows(s, date_range)
      expected == funnel_stages[s].expected_duration_days
  IN [stage_name |-> funnel_stages[s].stage_name,
      stage_order |-> funnel_stages[s].stage_order,
      expected_duration_days |-> expected,
      prospects_entered |-> Cardinality({prospect_journey[j].prospect_id : j \in js}),
      prospects_exited |->
        Cardinality({prospect_journey[j].prospect_id :
                       j \in {x \in js : prospect_journey[x].exited_at # NullTs}}),
      \* AVG(...) is NULL over no rows, and "or 0" makes it 0.
      avg_duration_days |->
        IF js = {} THEN Whole(0)
        ELSE Frac(SumVisitTicks(js), Cardinality(js) * TicksPerDay),
      prospects_stuck |->
        Cardinality({prospect_journey[j].prospect_id :
                       j \in {x \in js :
                                /\ prospect_journey[x].exited_at = NullTs
                                /\ julianday(now) - julianday(prospect_journey[x].entered_at)
                                     > expected * TicksPerDay}})]

\* WHERE fs.stage_name != 'Lost/Disqualified'.
QueriedStages == {s \in DOMAIN funnel_stages : funnel_stages[s].stage_name # "Lost/Disqualified"}

RECURSIVE OrderByStageOrder(_)
\* ORDER BY fs.stage_order (rows of equal order in rowid order).
OrderByStageOrder(S) ==
  IF S = {} THEN << >>
  ELSE LET s == CHOOSE x \in S :
                  \A y \in S : \/ funnel_stages[x].stage_order < funnel_stages[y].stage_order
                               \/ (funnel_stages[x].stage_order = funnel_stages[y].stage_order
                                   /\ x <= y)
       IN <<s>> \o OrderByStageOrder(S \ {s})

Bottlenecks(date_range) ==
  LET order == OrderByStageOrder(QueriedStages)
  IN [k \in DOMAIN order |-> AnalyzeStage(StageQueryRow(order[k], date_range))]

\* The list the call returns; except Exception: return [].
BottleneckList(date_range) == IF Closed THEN << >> ELSE Bottlenecks(date_range)

identify_bottlenecks(date_range) ==
  /\ result' = [op |-> "identify_bottlenecks", date_range |-> date_range,
                bottlenecks |-> BottleneckList(date_range)]
  /\ UNCHANGED <<store, now, engines>>

(* ----------------------- bottleneck analytics alone -------------------- *)
NextBottle ==
  \/ \E p \in 1..MaxProspects, s \in 1..MaxStageVisited : InsertJourney(p, s)
  \/ \E j \in 1..MaxJourney : ExitJourney(j)
  \/ \E s \in 1..Len(StageCatalog) : DeactivateStage(s)
  \/ AdvanceClock
  \/ \E dr \in DateRanges : identify_bottlenecks(dr)

SpecBottle == Init /\ [][NextBottle]_vars

(* ------------- conversion and bottleneck analytics together ------------ *)
\* Leads with their calls, proposals and contracts are recorded first, their
\* stage visits after; the two operations count them at any moment.
LeadsPhase == prospect_journey = << >> /\ now.day = 1

NextCounts ==
  \/ LeadsPhase /\ InsertProspect(Len(prospects) + 1, 0, [day |-> 1, tod |-> 0])
  \/ \E st \in CallStatuses :
        /\ LeadsPhase
        /\ Len(discovery_calls) < MaxProspects
        /\ InsertDiscoveryCall(1, st)
  \/ LeadsPhase /\ Len(proposals) < 1 /\ InsertProposal(1)
  \/ /\ LeadsPhase
     /\ Len(contracts) < 1
     /\ InsertContract(1, 1, 0, "active", [day |-> 1, tod |-> 0])
  \/ \E p \in DOMAIN prospects : InsertJourney(p, 1)
  \/ \E j \in 1..MaxJourney : ExitJourney(j)
  \/ prospect_journey # << >> /\ AdvanceClock
  \/ \E dr \in DateRanges : calculate_conversion_rates(dr, 0)
  \/ \E dr \in DateRanges : identify_bottlenecks(dr)

SpecCounts == Init /\ [][NextCounts]_vars

(* ------------- two calls of identify_bottlenecks at different times ----- *)
\* The wall clock moves on by one day while the caller holds the list it got.
Tick ==
  /\ now.day < MaxNow
  /\ now' = [now EXCEPT !.day = @ + 1]
  /\ UNCHANGED <<store, result, engines>>

NextClock ==
  \/ \E p \in 1..MaxProspects, s \in 1..MaxStageVisited : InsertJourney(p, s)
  \/ \E j \in 1..MaxJourney : ExitJourney(j)
  \/ Tick
  \/ \E dr \in DateRanges : identify_bottlenecks(dr)

SpecClock == Init /\ [][NextClock]_vars

(* ------------- the classification of one stage-query row --------------- *)
\* The rows the stage query can return for a stage of the reference funnel:
\* exited and stuck prospects are among those that entered, and the average
\* duration (in half days) is 0 when nothing entered.
StageRows ==
  {r \in [stage_id : QueriedStages, prospects_entered : 0..MaxEntered,
          prospects_exited : 0..MaxEntered, prospects_stuck : 0..MaxEntered,
          half_days : 0..MaxHalfDays] :
     /\ r.prospects_exited <= r.prospects_entered
     /\ r.prospects_stuck <= r.prospects_entered
     /\ (r.prospects_entered = 0 => r.half_days = 0)}

StageRow(r) ==
  [stage_name |-> StageCatalog[r.stage_id].stage_name,
   stage_order |-> StageCatalog[r.stage_id].stage_order,
   expected_duration_days |-> StageCatalog[r.stage_id].expected_duration_days,
   prospects_entered |-> r.prospects_entered,
   prospects_exited |-> r.prospects_exited,
   avg_duration_days |-> Frac(r.half_days, 2),
   prospects_stuck |-> r.prospects_stuck]

\* A row of the stage query is at hand.
InitSeverity ==
  /\ lead_sources = << >>
  /\ prospects = << >>
  /\ discovery_calls = << >>
  /\ proposals = << >>
  /\ contracts = << >>
  /\ funnel_stages = StageCatalog
  /\ prospect_journey = << >>
  /\ now = [day |-> 1, tod |-> 0]
  /\ NoEngineActivity
  /\ result \in {[op |-> "stage_row", row |-> StageRow(r)] : r \in StageRows}

\* One turn of the loop over the query's rows.
analyze_stage ==
  /\ result.op = "stage_row"
  /\ result' = [op |-> "analyze_stage", row |-> result.row,
                analysis |-> AnalyzeStage(result.row)]
  /\ UNCHANGED <<store, now, engines>>

NextSeverity == analyze_stage

SpecSeverity == InitSeverity /\ [][NextSeverity]_vars

(* --------------------- calculate_revenue_attribution ------------------- *)
\* Source names and categories in text order (the order of the group keys).
SourceNames == << "Alpha", "Beta" >>
SourceCategories == << "linkedin", "other" >>
NameRank(name) == CHOOSE k \in DOMAIN SourceNames : SourceNames[k] = name
CategoryRank(cat) == CHOOSE k \in DOMAIN SourceCategories : SourceCategories[k] = cat

\* INSERT INTO lead_sources by the marketing operations: is_active defaults to 1.
InsertLeadSource(name, category, cost) ==
  /\ Len(lead_sources) < MaxSources
  /\ lead_sources' = Append(lead_sources,
        [source_name |-> name, source_category |-> category,
         cost_per_lead |-> cost, is_active |-> 1])
  /\ result' = NoResult
  /\ UNCHANGED engines
  /\ UNCHANGED <<prospects, discovery_calls, proposals, contracts,
                 funnel_stages, prospect_journey, now>>

\* FROM contracts c JOIN prospects p JOIN lead_sources ls
\* WHERE c.signed_at BETWEEN ? AND ? AND c.contract_status = 'active'.
AttributionRows(date_range) ==
  {c \in DOMAIN contracts :
     /\ contracts[c].prospect_id \in DOMAIN prospects
     /\ prospects[contracts[c].prospect_id].lead_source_id \in DOMAIN lead_sources
     /\ Between(contracts[c].signed_at, date_range[1], date_range[2])
     /\ contracts[c].contract_status = "active"}

SourceOfContract(c) == lead_sources[prospects[contracts[c].prospect_id].lead_source_id]
GroupKey(c) == <<SourceOfContract(c).source_name, SourceOfContract(c).source_category>>

RECURSIVE SumMrr(_)
SumMrr(cs) ==
  IF cs = {} THEN 0
  ELSE LET c == CHOOSE x \in cs : TRUE
       IN contracts[c].monthly_recurring_revenue + SumMrr(cs \ {c})

RECURSIVE SumValue(_)
SumValue(cs) ==
  IF cs = {} THEN 0
  ELSE LET c == CHOOSE x \in cs : TRUE
       IN contracts[c].contract_value + SumValue(cs \ {c})

\* df.groupby(['source_name', 'source_category']).agg(...): one record per key.
AttributionGroup(key, cs) ==
  [source_name |-> key[1], source_category |-> key[2],
   total_attributed_revenue |-> SumValue(cs),
   avg_deal_size |-> Frac(SumValue(cs), Cardinality(cs)),
   total_contracts |-> Cardinality(cs),
   total_mrr |-> SumMrr(cs)]

\* round(x, 2) of the percentage num / den * 100, in hundredths of a percent
\* (ties to even); NaN when the float division is 0 / 0.
NotANumber == [nan |-> TRUE, hundredths |-> 0]
RoundPercent(num, den) ==
  IF den = 0 THEN NotANumber
  ELSE LET q == (num * 10000) \div den
           r == (num * 10000) % den
       IN [nan |-> FALSE,
           hundredths |-> IF 2 * r > den \/ (2 * r = den /\ q % 2 = 1) THEN q + 1 ELSE q]

RECURSIVE SumRevenue(_)
\* attribution_df['total_attributed_revenue'].sum().
SumRevenue(groups) ==
  IF groups = {} THEN 0
  ELSE LET g == CHOOSE x \in groups : TRUE
       IN g.total_attributed_revenue + SumRevenue(groups \ {g})

\* The group that sort_values('total_attributed_revenue', ascending=False) puts
\* first: the largest revenue, equal revenues staying in group-key order.
FirstGroup(groups) ==
  CHOOSE g \in groups : \A h \in groups :
     \/ g.total_attributed_revenue > h.total_attributed_revenue
     \/ /\ g.total_attributed_revenue = h.total_attributed_revenue
        /\ \/ NameRank(g.source_name) < NameRank(h.source_name)
           \/ /\ g.source_name = h.source_name
              /\ CategoryRank(g.source_category) <= CategoryRank(h.source_category)

RECURSIVE SortByRevenue(_)
SortByRevenue(groups) ==
  IF groups = {} THEN << >>
  ELSE LET g == FirstGroup(groups) IN <<g>> \o SortByRevenue(groups \ {g})

RevenueAttribution(date_range, attribution_model) ==
  LET rows == AttributionRows(date_range)
      keys == {GroupKey(c) : c \in rows}
      groups == {AttributionGroup(k, {c \in rows : GroupKey(c) = k}) : k \in keys}
      total_revenue == SumRevenue(groups)
      with_pct == {[source_name |-> g.source_name,
                    source_category |-> g.source_category,
                    total_attributed_revenue |-> g.total_attributed_revenue,
                    avg_deal_size |-> g.avg_deal_size,
                    total_contracts |-> g.total_contracts,
                    total_mrr |-> g.total_mrr,
                    revenue_percentage |->
                      RoundPercent(g.total_attributed_revenue, total_revenue)] :
                   g \in groups}
  IN \* if df.empty: return pd.DataFrame()
     IF rows = {} THEN << >> ELSE SortByRevenue(with_pct)

\* Model names a request may carry: the default, another, and one that no
\* attribution scheme goes by.
AttributionModels == {"first_touch", "last_touch", "no_such_model"}

\* The call with only the default model served, any other name yielding no table.
AttributionTable_DefaultOnly(date_range, attribution_model) ==
  IF Closed \/ attribution_model # "first_touch" THEN << >>
  ELSE RevenueAttribution(date_range, attribution_model)

\* The table the call returns; except Exception: return pd.DataFrame().
AttributionTable(date_range, attribution_model) ==
  IF Closed THEN << >> ELSE RevenueAttribution(date_range, attribution_model)

calculate_revenue_attribution(date_range, attribution_model) ==
  /\ result' = [op |-> "calculate_revenue_attribution", date_range |-> date_range,
                attribution_model |-> attribution_model,
                table |-> AttributionTable(date_range, attribution_model)]
  /\ UNCHANGED <<store, now, engines>>

(* ---------------------- revenue attribution alone ---------------------- *)
\* populate_sample_data: monthly_recurring_revenue = contract_value * 0.1,
\* contract values being multiples of MoneyUnit.
MoneyUnit == 10

NextAttr ==
  \/ \E n \in 1..Len(SourceNames) : InsertLeadSource(SourceNames[n], "other", 0)
  \/ \E s \in 0..Len(lead_sources) :
        InsertProspect(Len(prospects) + 1, s, [day |-> 1, tod |-> 0])
  \/ \E p \in 1..MaxProspects, v \in 0..MaxValue, st \in ContractStatuses, d \in Days :
        /\ Len(contracts) < MaxContracts
        /\ InsertContract(p, v * MoneyUnit, v, st, [day |-> d, tod |-> 0])
  \/ \E dr \in DateRanges, m \in AttributionModels : calculate_revenue_attribution(dr, m)

SpecAttr == Init /\ [][NextAttr]_vars

(* ------------------ acquisition cost of calculate_conversion_rates ----- *)
NextCost ==
  \/ \E cost \in 0..1 :
        /\ Len(lead_sources) < Len(SourceNames)
        /\ InsertLeadSource(SourceNames[Len(lead_sources) + 1], "other", cost * MoneyUnit)
  \/ \E s \in 0..Len(lead_sources) :
        InsertProspectUpTo(MaxCostProspects, Len(prospects) + 1, s, [day |-> 1, tod |-> 0])
  \/ \E p \in 1..MaxCostProspects, d \in Days :
        /\ Len(contracts) < MaxContracts
        /\ InsertContract(p, MoneyUnit, 1, "active", [day |-> d, tod |-> 0])
  \/ \E dr \in DateRanges, f \in 0..MaxSources : calculate_conversion_rates(dr, f)

SpecCost == Init /\ [][NextCost]_vars

(* ---------------------- get_lead_source_performance -------------------- *)
\* A column value that may be SQL NULL (None / NaN in the DataFrame).
SqlNull == [null |-> TRUE, value |-> <<0, 1>>]
NotNull(f) == [null |-> FALSE, value |-> f]

\* UPDATE lead_sources SET is_active = 0 by the marketing operations.
DeactivateLeadSource(s) ==
  /\ s \in DOMAIN lead_sources
  /\ lead_sources[s].is_active = 1
  /\ lead_sources' = [lead_sources EXCEPT ![s].is_active = 0]
  /\ result' = NoResult
  /\ UNCHANGED engines
  /\ UNCHANGED <<prospects, discovery_calls, proposals, contracts,
                 funnel_stages, prospect_journey, now>>

\* LEFT JOIN prospects p ON ls.source_id = p.lead_source_id
\*   AND p.created_at BETWEEN ? AND ?.
SourceProspects(s, date_range) ==
  {p \in DOMAIN prospects :
     /\ prospects[p].lead_source_id = s
     /\ Between(prospects[p].created_at, date_range[1], date_range[2])}

\* ... LEFT JOIN discovery_calls dc LEFT JOIN proposals pr LEFT JOIN contracts c:
\* the joined rows of one lead source (p = 0: the source has no prospect).
SourceJoin(s, date_range) ==
  IF SourceProspects(s, date_range) = {}
  THEN {[p |-> 0, dc |-> 0, pr |-> 0, c |-> 0]}
  ELSE UNION {{[p |-> p, dc |-> a, pr |-> b, c |-> k] :
                 a \in LeftJoin(CallsOf(p)), b \in LeftJoin(ProposalsOf(p)),
                 k \in LeftJoin(ContractsOf(p))} :
              p \in SourceProspects(s, date_range)}

\* ROUND(x / y * 100, 2) as a fraction of hundredths, halves away from zero.
RoundRate(x, y) ==
  LET q == (x * 10000) \div y
      r == (x * 10000) % y
  IN Frac(IF 2 * r >= y THEN q + 1 ELSE q, 100)

\* One row of the GROUP BY ls.source_id with the columns added by np.where.
SourcePerformance(s, date_range) ==
  LET rows == SourceJoin(s, date_range)
      cost == lead_sources[s].cost_per_lead
      total_leads == Cardinality({r.p : r \in rows} \ {0})
      contracts_signed == Cardinality({r.c : r \in rows} \ {0})
      contract_rows == Cardinality({r \in rows : r.c # 0})
      total_revenue == SumContractValue(rows)
      revenue_per_lead == IF total_leads = 0 THEN SqlNull
                          ELSE NotNull(Frac(total_revenue, total_leads))
      total_acquisition_cost == cost * total_leads
  IN [source_id |-> s,
      source_name |-> lead_sources[s].source_name,
      source_category |-> lead_sources[s].source_category,
      cost_per_lead |-> cost,
      total_leads |-> total_leads,
      discovery_calls |-> Cardinality({r.dc : r \in rows} \ {0}),
      proposals_sent |-> Cardinality({r.pr : r \in rows} \ {0}),
      contracts_signed |-> contracts_signed,
      total_revenue |-> total_revenue,
      avg_deal_size |-> IF contract_rows = 0 THEN Whole(0)
                        ELSE Frac(total_revenue, contract_rows),
      conversion_rate |-> IF total_leads = 0 THEN SqlNull
                          ELSE NotNull(RoundRate(contracts_signed, total_leads)),
      revenue_per_lead |-> revenue_per_lead,
      total_acquisition_cost |-> total_acquisition_cost,
      roi |-> IF total_acquisition_cost > 0
              THEN Frac((total_revenue - total_acquisition_cost) * 100,
                        total_acquisition_cost)
              ELSE Whole(0),
      payback_period_months |->
        IF ~revenue_per_lead.null /\ total_revenue > 0
        THEN Frac(cost * 12 * total_leads, total_revenue)
        ELSE Whole(0)]

\* The rows in the order of the groups, without the ORDER BY.
FirstPerformance_Unordered(rows) ==
  CHOOSE g \in rows : \A h \in rows : g.source_id <= h.source_id

\* The row that ORDER BY total_revenue DESC, total_leads DESC puts first
\* (rows equal in both stay in the order of the groups, by source_id).
FirstPerformance(rows) ==
  CHOOSE g \in rows : \A h \in rows :
     \/ g.total_revenue > h.total_revenue
     \/ /\ g.total_revenue = h.total_revenue
        /\ \/ g.total_leads > h.total_leads
           \/ g.total_leads = h.total_leads /\ g.source_id <= h.source_id

RECURSIVE OrderPerformance(_)
OrderPerformance(rows) ==
  IF rows = {} THEN << >>
  ELSE LET g == FirstPerformance(rows) IN <<g>> \o OrderPerformance(rows \ {g})

\* WHERE ls.is_active = 1.
LeadSourcePerformance(date_range) ==
  OrderPerformance({SourcePerformance(s, date_range) :
                      s \in {x \in DOMAIN lead_sources : lead_sources[x].is_active = 1}})

\* The table the call returns; except Exception: return pd.DataFrame().
PerformanceTable(date_range) == IF Closed THEN << >> ELSE LeadSourcePerformance(date_range)

get_lead_source_performance(date_range) ==
  /\ result' = [op |-> "get_lead_source_performance", date_range |-> date_range,
                table |-> PerformanceTable(date_range)]
  /\ UNCHANGED <<store, now, engines>>

(* --------------------- lead source performance alone ------------------- *)
NextPerf ==
  \/ \E cost \in 0..1 :
        /\ Len(lead_sources) < Len(SourceNames)
        /\ InsertLeadSource(SourceNames[Len(lead_sources) + 1], "other", cost * MoneyUnit)
  \/ \E s \in DOMAIN lead_sources : DeactivateLeadSource(s)
  \/ \E s \in 0..Len(lead_sources), d \in Days :
        InsertProspect(Len(prospects) + 1, s, [day |-> d, tod |-> 0])
  \/ \E p \in 1..MaxProspects, v \in 1..MaxValue :
        /\ Len(contracts) < MaxContracts
        /\ InsertContract(p, v * MoneyUnit, v, "active", [day |-> 1, tod |-> 0])
  \/ \E dr \in DateRanges : get_lead_source_performance(dr)

SpecPerf == Init /\ [][NextPerf]_vars

(* ------------- FunnelInsightsGenerator._generate_strategic_insights ---- *)
\* Thresholds of the strategic rules.
CriticalConversion == 5
ExceptionalConversion == 12
ScalingRoi == 200
PoorRoi == 50
LongSalesCycle == 70
SmallDeal == 40000
MaxWorstSources == 3
MaxInsightActions == 4

\* s[:n].
Prefix(s, n) == SubSeq(s, 1, IF Len(s) < n THEN Len(s) ELSE n)

\* [f(x) for x in s if Test(x)] for the tests used below.
HighSeverity(bs) == SelectSeq(bs, LAMBDA b : b.bottleneck_severity = "HIGH")

\* source_performance[source_performance['roi'] <= limit]: the poor-ROI test
\* taken as "at most" instead of "below".
RoiBelow_AtMost(t, limit) == SelectSeq(t, LAMBDA r : FracLe(r.roi, Whole(limit)))

\* source_performance[source_performance['roi'] < limit].
RoiBelow(t, limit) == SelectSeq(t, LAMBDA r : FracLt(r.roi, Whole(limit)))
SourceNamesOf(t) == [k \in DOMAIN t |-> t[k].source_name]

\* A StrategicInsight: its type and priority, what it is about, and its
\* recommended actions.
StrategicInsight(type, priority, subject, actions) ==
  [insight_type |-> type, priority |-> priority, subject |-> subject,
   recommended_actions |-> actions]

ConversionOptimizationActions ==
  << "Implement lead scoring to focus on high-quality prospects",
     "Review and improve qualification criteria",
     "Analyze lost prospects for common patterns",
     "Implement A/B testing for key funnel stages" >>
ScalingOpportunityActions ==
  << "Scale investment in top-performing lead sources",
     "Expand team capacity to handle increased volume",
     "Document and systematize successful processes",
     "Consider raising pricing to optimize for deal value" >>
InvestmentScalingActions ==
  << "Double marketing budget allocation to the source",
     "Analyze what makes this source successful",
     "Replicate successful tactics across other channels",
     "Set up dedicated tracking and optimization" >>
CostOptimizationActions ==
  << "Pause or reduce spend on underperforming sources",
     "Analyze messaging and targeting for these channels",
     "A/B test different approaches before eliminating",
     "Reallocate budget to high-performing sources" >>
VelocityOptimizationActions ==
  << "Implement urgency tactics and deadlines",
     "Streamline proposal and contract processes",
     "Improve qualification to focus on ready-to-buy prospects",
     "Create fast-track options for qualified prospects" >>
ValueOptimizationActions ==
  << "Implement value-based pricing strategies",
     "Create tiered service packages",
     "Focus on larger enterprise prospects",
     "Improve consultative selling techniques" >>

\* The insights list, rule after rule in the order of the appends.
generate_strategic_insights(metrics, source_performance, bottlenecks, revenue_attribution) ==
  LET conversion ==
        IF FracLt(metrics.overall_conversion_rate, Whole(CriticalConversion))
        THEN << StrategicInsight("CONVERSION_OPTIMIZATION", "HIGH", << >>,
                                 ConversionOptimizationActions) >>
        ELSE IF FracLt(Whole(ExceptionalConversion), metrics.overall_conversion_rate)
        THEN << StrategicInsight("SCALING_OPPORTUNITY", "HIGH", << >>,
                                 ScalingOpportunityActions) >>
        ELSE << >>
      bottom_sources == RoiBelow(source_performance, PoorRoi)
      scaling ==
        IF source_performance # << >>
           /\ FracLt(Whole(ScalingRoi), source_performance[1].roi)
        THEN << StrategicInsight("INVESTMENT_SCALING", "HIGH",
                                 << source_performance[1].source_name >>,
                                 InvestmentScalingActions) >>
        ELSE << >>
      cost ==
        IF source_performance # << >> /\ Len(bottom_sources) > 0
        THEN << StrategicInsight("COST_OPTIMIZATION", "MEDIUM",
                                 Prefix(SourceNamesOf(bottom_sources), MaxWorstSources),
                                 CostOptimizationActions) >>
        ELSE << >>
      high_priority_bottlenecks == HighSeverity(bottlenecks)
      process ==
        IF high_priority_bottlenecks # << >>
        THEN << StrategicInsight("PROCESS_OPTIMIZATION", "HIGH",
                                 << high_priority_bottlenecks[1].stage_name >>,
                                 Prefix(high_priority_bottlenecks[1].recommendations,
                                        MaxInsightActions)) >>
        ELSE << >>
      velocity ==
        IF FracLt(Whole(LongSalesCycle), metrics.avg_sales_cycle_days)
        THEN << StrategicInsight("VELOCITY_OPTIMIZATION", "MEDIUM", << >>,
                                 VelocityOptimizationActions) >>
        ELSE << >>
      value ==
        IF revenue_attribution # << >> /\ FracLt(metrics.avg_deal_size, Whole(SmallDeal))
        THEN << StrategicInsight("VALUE_OPTIMIZATION", "MEDIUM", << >>,
                                 ValueOptimizationActions) >>
        ELSE << >>
  IN conversion \o scaling \o cost \o process \o velocity \o value

(* -------------------- the strategic rules on their own ----------------- *)
\* Values on both sides of every threshold of the rules.
InsightRates == {4, 5, 12, 13}
InsightCycles == {70, 71}
InsightDeals == {39999, 40000}
InsightRois == {49, 50, 200, 201}
MaxInsightSources == 4
MaxInsightBottlenecks == 2
InsightSourceNames == << "Alpha", "Beta", "Gamma", "Delta", "Epsilon" >>

\* Lead-source rows as the generator reads them: the name and the ROI.
InsightSources ==
  UNION {{[k \in 1..n |-> [source_name |-> InsightSourceNames[k], roi |-> Whole(f[k])]] :
            f \in [1..n -> InsightRois]} : n \in 0..MaxInsightSources}

\* Stage rows of two prospects of which none, one or both left the stage.
InsightStageRows(stage_id) ==
  {[stage_id |-> stage_id, prospects_entered |-> 2, prospects_exited |-> x,
    prospects_stuck |-> 0, half_days |-> 0] : x \in 0..2}

\* Bottleneck lists as identify_bottlenecks builds them, in stage order.
InsightBottlenecks ==
  UNION {{[k \in 1..n |-> AnalyzeStage(StageRow(f[k]))] :
            f \in {g \in [1..n -> UNION {InsightStageRows(s) : s \in 1..n}] :
                     \A k \in 1..n : g[k].stage_id = k}} :
         n \in 0..MaxInsightBottlenecks}

\* The attribution table matters only by being empty or not.
InsightAttributions == {<< >>, << [lead_source |-> "Alpha"] >>}

InsightInputs ==
  [metrics : [overall_conversion_rate : {Whole(r) : r \in InsightRates},
              avg_sales_cycle_days : {Whole(d) : d \in InsightCycles},
              avg_deal_size : {Whole(v) : v \in InsightDeals}],
   source_performance : InsightSources,
   bottlenecks : InsightBottlenecks,
   revenue_attribution : InsightAttributions]

\* The four analytic results are at hand.
InitInsights ==
  /\ lead_sources = << >>
  /\ prospects = << >>
  /\ discovery_calls = << >>
  /\ proposals = << >>
  /\ contracts = << >>
  /\ funnel_stages = StageCatalog
  /\ prospect_journey = << >>
  /\ now = [day |-> 1, tod |-> 0]
  /\ NoEngineActivity
  /\ result \in {[op |-> "insight_inputs", inputs |-> i] : i \in InsightInputs}

run_generate_strategic_insights ==
  /\ result.op = "insight_inputs"
  /\ result' = [op |-> "generate_strategic_insights", inputs |-> result.inputs,
                insights |->
                  generate_strategic_insights(result.inputs.metrics,
                                              result.inputs.source_performance,
                                              result.inputs.bottlenecks,
                                              result.inputs.revenue_attribution)]
  /\ UNCHANGED <<store, now, engines>>

\* The windows of the action plan: the insights taken first and the number
\* of recommended actions taken from each.
UrgentInsights == 2
EarlyMediumInsights == 1
ActionsIn30Days == 2
ActionsIn60Days == 2
ActionsIn90Days == 1

\* s[n:].
Suffix(s, n) == SubSeq(s, n + 1, Len(s))

RECURSIVE ActionsOf(_, _)
\* [action for insight in insights for action in insight.recommended_actions[:n]].
ActionsOf(insights, n) ==
  IF insights = << >> THEN << >>
  ELSE Prefix(insights[1].recommended_actions, n) \o ActionsOf(Tail(insights), n)

\* The plan with two actions of every insight in each of the three windows.
create_30_60_90_action_plan_TwoInEveryWindow(insights) ==
  LET high_priority == SelectSeq(insights, LAMBDA i : i.priority = "HIGH")
      medium_priority == SelectSeq(insights, LAMBDA i : i.priority = "MEDIUM")
  IN [w \in {"30_days", "60_days", "90_days"} |->
        CASE w = "30_days" ->
               ActionsOf(Prefix(high_priority, UrgentInsights), ActionsIn30Days)
          [] w = "60_days" ->
               ActionsOf(Suffix(high_priority, UrgentInsights)
                           \o Prefix(medium_priority, EarlyMediumInsights),
                         ActionsIn60Days)
          [] w = "90_days" ->
               ActionsOf(Suffix(medium_priority, EarlyMediumInsights), ActionsIn60Days)]

\* _create_30_60_90_action_plan.
create_30_60_90_action_plan(insights) ==
  LET high_priority == SelectSeq(insights, LAMBDA i : i.priority = "HIGH")
      medium_priority == SelectSeq(insights, LAMBDA i : i.priority = "MEDIUM")
  IN [w \in {"30_days", "60_days", "90_days"} |->
        CASE w = "30_days" ->
               ActionsOf(Prefix(high_priority, UrgentInsights), ActionsIn30Days)
          [] w = "60_days" ->
               ActionsOf(Suffix(high_priority, UrgentInsights)
                           \o Prefix(medium_priority, EarlyMediumInsights),
                         ActionsIn60Days)
          [] w = "90_days" ->
               ActionsOf(Suffix(medium_priority, EarlyMediumInsights), ActionsIn90Days)]

\* "action_plan": self._create_30_60_90_action_plan(strategic_insights).
run_create_30_60_90_action_plan ==
  /\ result.op = "generate_strategic_insights"
  /\ result' = [op |-> "create_30_60_90_action_plan", insights |-> result.insights,
                action_plan |-> create_30_60_90_action_plan(result.insights)]
  /\ UNCHANGED <<store, now, engines>>

NextInsights == run_generate_strategic_insights \/ run_create_30_60_90_action_plan

SpecInsights == InitInsights /\ [][NextInsights]_vars

(* ------------- FunnelAnalyticsEngine.generate_comprehensive_insights --- *)
\* Thresholds and list lengths of the engine's summary.
HealthyRate == 10
CriticalRate == 5
ExcellentRoi == 200
LowSourceConversion == 2
LengthySalesCycle == 60
MaxKeyRecommendations == 5
MaxTopSources == 5
MaxTopAttributed == 3
MaxStageOpportunities == 2

\* One entry of key_recommendations: the text, what it names, the detail it
\* quotes and the number it gives.
Recommendation(text, subject, detail, count) ==
  [text |-> text, subject |-> subject, detail |-> detail, count |-> count]

\* source_performance[source_performance['conversion_rate'] < 2]: a NULL rate
\* compares false.
LowPerforming(t) ==
  SelectSeq(t, LAMBDA r : /\ ~r.conversion_rate.null
                          /\ FracLt(r.conversion_rate.value, Whole(LowSourceConversion)))

generate_strategic_recommendations(metrics, bottlenecks, source_performance) ==
  LET conversion ==
        IF FracLt(metrics.overall_conversion_rate, Whole(CriticalRate))
        THEN << Recommendation("CRITICAL: Overall conversion rate is below 5%. Focus on lead qualification and sales process optimization.",
                               "", "", 0) >>
        ELSE IF FracLt(metrics.overall_conversion_rate, Whole(HealthyRate))
        THEN << Recommendation("Conversion rate needs improvement. Consider implementing lead scoring and nurturing sequences.",
                               "", "", 0) >>
        ELSE << >>
      scale ==
        IF source_performance # << >>
           /\ FracLt(Whole(ExcellentRoi), source_performance[1].roi)
        THEN << Recommendation("Scale investment in the source - showing excellent ROI",
                               source_performance[1].source_name, "", 0) >>
        ELSE << >>
      pause ==
        IF source_performance # << >> /\ LowPerforming(source_performance) # << >>
        THEN << Recommendation("Consider pausing or optimizing underperforming lead sources",
                               "", "", Len(LowPerforming(source_performance))) >>
        ELSE << >>
      address ==
        IF bottlenecks # << >>
        THEN << Recommendation("Address the bottleneck", bottlenecks[1].stage_name,
                               IF bottlenecks[1].recommendations # << >>
                               THEN bottlenecks[1].recommendations[1]
                               ELSE "needs immediate attention",
                               0) >>
        ELSE << >>
      cycle ==
        IF FracLt(Whole(LengthySalesCycle), metrics.avg_sales_cycle_days)
        THEN << Recommendation("Sales cycle is lengthy. Implement urgency tactics and streamline decision-making process.",
                               "", "", 0) >>
        ELSE << >>
  IN Prefix(conversion \o scale \o pause \o address \o cycle, MaxKeyRecommendations)

RECURSIVE ByLeads(_, _)
\* The rows at the positions S by total_leads, largest first, equal ones in
\* table order.
ByLeads(t, S) ==
  IF S = {} THEN << >>
  ELSE LET k == CHOOSE x \in S : \A y \in S :
                  \/ t[x].total_leads > t[y].total_leads
                  \/ (t[x].total_leads = t[y].total_leads /\ x <= y)
       IN <<t[k]>> \o ByLeads(t, S \ {k})

RECURSIVE ByRoi(_, _)
\* The rows at the positions S by roi, largest first, equal ones in table order.
ByRoi(t, S) ==
  IF S = {} THEN << >>
  ELSE LET k == CHOOSE x \in S : \A y \in S :
                  \/ FracLt(t[y].roi, t[x].roi)
                  \/ (FracEq(t[x].roi, t[y].roi) /\ x <= y)
       IN <<t[k]>> \o ByRoi(t, S \ {k})

\* source_performance.nlargest(n, 'total_leads') and nlargest(n, 'roi').
LargestByLeads(t, n) == Prefix(ByLeads(t, DOMAIN t), n)
LargestByRoi(t, n) == Prefix(ByRoi(t, DOMAIN t), n)

RECURSIVE SumPercentage(_, _)
\* revenue_percentage.sum() over the first k rows: NaN if any of them is.
SumPercentage(t, k) ==
  IF k = 0 THEN [nan |-> FALSE, hundredths |-> 0]
  ELSE LET rest == SumPercentage(t, k - 1)
       IN [nan |-> rest.nan \/ t[k].revenue_percentage.nan,
           hundredths |-> rest.hundredths + t[k].revenue_percentage.hundredths]

\* _analyze_trends: the same four trends whatever the period.
analyze_trends ==
  [conversion_rate_trend |-> "stable", lead_volume_trend |-> "increasing",
   deal_size_trend |-> "stable", sales_cycle_trend |-> "decreasing"]

\* {}: the dictionary without any key.
EmptyBundle == [keys |-> {}]

\* head(5)[['source_name', 'total_revenue', 'conversion_rate']] and the like.
RevenueColumns(t) ==
  [k \in DOMAIN t |-> [source_name |-> t[k].source_name,
                       total_revenue |-> t[k].total_revenue,
                       conversion_rate |-> t[k].conversion_rate]]
VolumeColumns(t) ==
  [k \in DOMAIN t |-> [source_name |-> t[k].source_name,
                       total_leads |-> t[k].total_leads,
                       conversion_rate |-> t[k].conversion_rate]]
EfficiencyColumns(t) ==
  [k \in DOMAIN t |-> [source_name |-> t[k].source_name,
                       roi |-> t[k].roi,
                       revenue_per_lead |-> t[k].revenue_per_lead]]
AttributedColumns(t) ==
  [k \in DOMAIN t |-> [source_name |-> t[k].source_name,
                       total_attributed_revenue |-> t[k].total_attributed_revenue,
                       revenue_percentage |-> t[k].revenue_percentage]]
CriticalStages(bs) ==
  [k \in DOMAIN bs |-> [stage |-> bs[k].stage_name,
                        conversion_rate |-> bs[k].conversion_rate,
                        prospects_stuck |-> bs[k].prospects_stuck]]

RECURSIVE ImprovementOpportunities(_, _)
\* [rec for b in high_priority_bottlenecks for rec in b.recommendations[:2]],
\* over the first k of them.
ImprovementOpportunities(bs, k) ==
  IF k = 0 THEN << >>
  ELSE ImprovementOpportunities(bs, k - 1)
       \o Prefix(bs[k].recommendations, MaxStageOpportunities)

\* The dictionary the engine returns.  The four analytic calls catch their own
\* errors, so the statements of this operation work on whatever they return
\* and the outer handler (return {}) is not reached through them.
EngineInsights(date_range) ==
  LET overall_metrics == ConversionRates(date_range, 0)
      source_performance == PerformanceTable(date_range)
      bottlenecks == BottleneckList(date_range)
      high_priority_bottlenecks == HighSeverity(bottlenecks)
      revenue_attribution == AttributionTable(date_range, "first_touch")
  IN [keys |-> {"period", "generated_at", "executive_summary", "conversion_metrics",
                "lead_source_performance", "bottleneck_analysis",
                "revenue_attribution", "key_recommendations"},
      period |-> date_range,
      generated_at |-> now,
      conversion_metrics |->
        [total_leads |-> overall_metrics.total_leads,
         contracts_signed |-> overall_metrics.contracts_signed,
         total_revenue |-> overall_metrics.total_revenue,
         overall_conversion_rate |-> overall_metrics.overall_conversion_rate,
         avg_deal_size |-> overall_metrics.avg_deal_size,
         avg_sales_cycle_days |-> overall_metrics.avg_sales_cycle_days,
         lead_to_discovery |-> overall_metrics.lead_to_discovery_rate,
         discovery_to_proposal |-> overall_metrics.discovery_to_proposal_rate,
         proposal_to_contract |-> overall_metrics.proposal_to_contract_rate],
      lead_source_performance |->
        IF source_performance = << >> THEN EmptyBundle
        ELSE [keys |-> {"top_sources_by_revenue", "top_sources_by_volume",
                        "most_efficient_sources"},
              top_sources_by_revenue |->
                RevenueColumns(Prefix(source_performance, MaxTopSources)),
              top_sources_by_volume |->
                VolumeColumns(LargestByLeads(source_performance, MaxTopSources)),
              most_efficient_sources |->
                EfficiencyColumns(LargestByRoi(source_performance, MaxTopSources))],
      bottleneck_analysis |->
        [high_priority_count |-> Len(high_priority_bottlenecks),
         critical_stages |-> CriticalStages(high_priority_bottlenecks),
         improvement_opportunities |->
           ImprovementOpportunities(high_priority_bottlenecks,
                                    Len(high_priority_bottlenecks))],
      revenue_attribution |->
        IF revenue_attribution = << >> THEN EmptyBundle
        ELSE [keys |-> {"top_revenue_sources", "revenue_concentration"},
              top_revenue_sources |->
                AttributedColumns(Prefix(revenue_attribution, MaxTopAttributed)),
              revenue_concentration |->
                SumPercentage(revenue_attribution,
                              Len(Prefix(revenue_attribution, MaxTopAttributed)))],
      executive_summary |->
        [total_pipeline_value |-> overall_metrics.total_revenue,
         conversion_health |->
           IF FracLt(Whole(HealthyRate), overall_metrics.overall_conversion_rate)
           THEN "Good" ELSE "Needs Improvement",
         primary_bottleneck |->
           IF high_priority_bottlenecks # << >>
           THEN high_priority_bottlenecks[1].stage_name ELSE "None identified",
         top_performing_source |->
           IF source_performance # << >>
           THEN source_performance[1].source_name ELSE "No data",
         key_metric_trends |-> analyze_trends],
      key_recommendations |->
        generate_strategic_recommendations(overall_metrics, high_priority_bottlenecks,
                                           source_performance)]

engine_generate_comprehensive_insights(date_range) ==
  /\ result' = [op |-> "engine.generate_comprehensive_insights",
                date_range |-> date_range, bundle |-> EngineInsights(date_range)]
  /\ UNCHANGED <<store, now, engines>>

(* ------------- FunnelInsightsGenerator.generate_comprehensive_insights - *)
\* Thresholds of the risk analysis.
ConcentrationLimit == 60
RiskyConversion == 5

Risk(type, subject) == [type |-> type, priority |-> "HIGH", subject |-> subject]

RECURSIVE SumTotalRevenue(_, _)
\* source_performance['total_revenue'].sum(), over the first k rows.
SumTotalRevenue(t, k) ==
  IF k = 0 THEN 0 ELSE t[k].total_revenue + SumTotalRevenue(t, k - 1)

\* _identify_risks: the top source's share of the revenue (not a number, and
\* so not above the limit, when there is no revenue), one risk for every HIGH
\* bottleneck, and the conversion risk.
identify_risks(metrics, source_performance, bottlenecks) ==
  LET total_revenue == SumTotalRevenue(source_performance, Len(source_performance))
      critical_bottlenecks == HighSeverity(bottlenecks)
      concentration ==
        IF /\ source_performance # << >>
           /\ total_revenue # 0
           /\ source_performance[1].total_revenue * 100 > ConcentrationLimit * total_revenue
        THEN << Risk("CONCENTRATION_RISK", source_performance[1].source_name) >>
        ELSE << >>
      process ==
        [k \in DOMAIN critical_bottlenecks |->
           Risk("PROCESS_RISK", critical_bottlenecks[k].stage_name)]
      performance ==
        IF FracLt(metrics.overall_conversion_rate, Whole(RiskyConversion))
        THEN << Risk("PERFORMANCE_RISK", "") >>
        ELSE << >>
  IN concentration \o process \o performance

\* The dictionary the generator returns, with the parts of it that follow from
\* the strategic rules and the risk analysis; the remaining keys
\* (benchmark_comparison, growth_opportunities, roi_optimization,
\* predictive_insights, action_plan, success_metrics, executive_summary) are
\* present whenever the dictionary is.  The four analytic calls catch their
\* own errors, so the outer handler (return {}) is not reached through them.
GeneratorInsights(date_range) ==
  LET overall_metrics == ConversionRates(date_range, 0)
      source_performance == PerformanceTable(date_range)
      bottlenecks == BottleneckList(date_range)
      revenue_attribution == AttributionTable(date_range, "first_touch")
  IN [keys |-> {"analysis_period", "executive_summary", "strategic_insights",
                "benchmark_comparison", "growth_opportunities", "risk_analysis",
                "roi_optimization", "predictive_insights", "action_plan",
                "success_metrics"},
      analysis_period |-> [start_date |-> date_range[1], end_date |-> date_range[2],
                           generated_at |-> now],
      strategic_insights |->
        generate_strategic_insights(overall_metrics, source_performance,
                                    bottlenecks, revenue_attribution),
      risk_analysis |-> identify_risks(overall_metrics, source_performance, bottlenecks)]

generator_generate_comprehensive_insights(date_range) ==
  /\ result' = [op |-> "generator.generate_comprehensive_insights",
                date_range |-> date_range,
                overall_metrics |-> ConversionRates(date_range, 0),
                bundle |-> GeneratorInsights(date_range)]
  /\ UNCHANGED <<store, now, engines>>

(* ------------- _compare_to_benchmarks and the health score ------------- *)
\* self.industry_benchmarks, in the order of the benchmark_metrics dictionary:
\* the name of the comparison, the field of the metrics and the benchmark.
OverallConversionBenchmark == Frac(17, 2)
LeadToDiscoveryBenchmark == Whole(42)
DiscoveryToProposalBenchmark == Whole(78)
ProposalToContractBenchmark == Whole(35)
SalesCycleBenchmark == Whole(54)
DealSizeBenchmark == Whole(45000)

benchmark_metrics ==
  << [metric_name |-> "Overall Conversion Rate", field |-> "overall_conversion_rate",
      benchmark |-> OverallConversionBenchmark],
     [metric_name |-> "Lead to Discovery Rate", field |-> "lead_to_discovery_rate",
      benchmark |-> LeadToDiscoveryBenchmark],
     [metric_name |-> "Discovery to Proposal Rate", field |-> "discovery_to_proposal_rate",
      benchmark |-> DiscoveryToProposalBenchmark],
     [metric_name |-> "Proposal to Contract Rate", field |-> "proposal_to_contract_rate",
      benchmark |-> ProposalToContractBenchmark],
     [metric_name |-> "Average Sales Cycle", field |-> "avg_sales_cycle_days",
      benchmark |-> SalesCycleBenchmark],
     [metric_name |-> "Average Deal Size", field |-> "avg_deal_size",
      benchmark |-> DealSizeBenchmark] >>

\* "Cycle" in metric_name.
HasCycle(metric_name) == metric_name = "Average Sales Cycle"

\* a / b for b # 0, the denominator kept positive.
FracDiv(a, b) ==
  IF a[2] * b[1] < 0 THEN Frac(0 - a[1] * b[2], 0 - a[2] * b[1])
  ELSE Frac(a[1] * b[2], a[2] * b[1])

\* The ratio with your_value / benchmark for every metric, the sales cycle too.
performance_ratio_NotInverted(metric_name, your_value, benchmark) ==
  FracDiv(your_value, benchmark)

\* benchmark / your_value for the sales cycle (lower is better), your_value /
\* benchmark for the others.
performance_ratio(metric_name, your_value, benchmark) ==
  IF HasCycle(metric_name) THEN FracDiv(benchmark, your_value)
  ELSE FracDiv(your_value, benchmark)

\* The tiers of the ratio.
ExcellentRatio == Frac(15, 10)
GoodRatio == Frac(12, 10)
AverageRatio == Frac(9, 10)
BelowAverageRatio == Frac(7, 10)
ExcellentRank == 95
GoodRank == 80
AverageRank == 60
BelowAverageRank == 30
PoorRank == 10

BenchmarkComparison(b, your_value) ==
  LET ratio == performance_ratio(b.metric_name, your_value, b.benchmark)
      tier ==
        IF FracLe(ExcellentRatio, ratio) THEN <<ExcellentRank, "EXCELLENT">>
        ELSE IF FracLe(GoodRatio, ratio) THEN <<GoodRank, "GOOD">>
        ELSE IF FracLe(AverageRatio, ratio) THEN <<AverageRank, "AVERAGE">>
        ELSE IF FracLe(BelowAverageRatio, ratio) THEN <<BelowAverageRank, "BELOW_AVERAGE">>
        ELSE <<PoorRank, "POOR">>
  IN [metric_name |-> b.metric_name,
      your_value |-> your_value,
      industry_average |-> b.benchmark,
      percentile_rank |-> tier[1],
      performance_status |-> tier[2]]

RECURSIVE CompareFrom(_, _)
\* The loop over benchmark_metrics from entry k on: a metric of value 0 is
\* passed over.
CompareFrom(metrics, k) ==
  IF k > Len(benchmark_metrics) THEN << >>
  ELSE LET b == benchmark_metrics[k]
           your_value == metrics[b.field]
       IN (IF your_value[1] = 0 THEN << >> ELSE << BenchmarkComparison(b, your_value) >>)
          \o CompareFrom(metrics, k + 1)

compare_to_benchmarks(metrics) == CompareFrom(metrics, 1)

RECURSIVE SumPercentileRank(_, _)
\* sum(b.percentile_rank for b in benchmarks), over the first k.
SumPercentileRank(benchmarks, k) ==
  IF k = 0 THEN 0
  ELSE benchmarks[k].percentile_rank + SumPercentileRank(benchmarks, k - 1)

NoBenchmarkScore == 50
MaxHealthScore == 100

\* The score with the mean rounded up instead of cut.
calculate_health_score_RoundedUp(benchmarks) ==
  IF benchmarks = << >> THEN NoBenchmarkScore
  ELSE LET mean == (SumPercentileRank(benchmarks, Len(benchmarks)) + Len(benchmarks) - 1)
                     \div Len(benchmarks)
       IN IF mean < MaxHealthScore THEN mean ELSE MaxHealthScore

\* _calculate_health_score: min(100, int(percentile_sum / len(benchmarks))),
\* and 50 for no benchmarks.  The sum is not negative, so int() cuts downwards.
calculate_health_score(benchmarks) ==
  IF benchmarks = << >> THEN NoBenchmarkScore
  ELSE LET mean == SumPercentileRank(benchmarks, Len(benchmarks)) \div Len(benchmarks)
       IN IF mean < MaxHealthScore THEN mean ELSE MaxHealthScore

(* ------------- the benchmark comparison of given metrics --------------- *)
\* The values a metric is given: 0 and the values that stand to its benchmark
\* in these ratios (on the limit of each tier and beside the limits).
BenchmarkRatios == {Frac(69, 100), Frac(7, 10), Frac(9, 10), Frac(119, 100),
                    Frac(12, 10), Frac(15, 10)}

\* r * benchmark for the metrics where higher is better.
ValuesAround(benchmark) ==
  {Whole(0)} \cup {Frac(r[1] * benchmark[1], r[2] * benchmark[2]) : r \in BenchmarkRatios}

\* benchmark / r for the sales cycle, where lower is better; and a contract
\* signed a day before its prospect was created.
CyclesAround(benchmark) ==
  {Whole(0), Whole(0 - 1)}
    \cup {Frac(r[2] * benchmark[1], r[1] * benchmark[2]) : r \in BenchmarkRatios}

BenchmarkInputs ==
  [overall_conversion_rate : ValuesAround(OverallConversionBenchmark),
   lead_to_discovery_rate : ValuesAround(LeadToDiscoveryBenchmark),
   discovery_to_proposal_rate : ValuesAround(DiscoveryToProposalBenchmark),
   proposal_to_contract_rate : ValuesAround(ProposalToContractBenchmark),
   avg_sales_cycle_days : CyclesAround(SalesCycleBenchmark),
   avg_deal_size : ValuesAround(DealSizeBenchmark)]

\* The overall metrics are at hand.
InitBenchmarks ==
  /\ lead_sources = << >>
  /\ prospects = << >>
  /\ discovery_calls = << >>
  /\ proposals = << >>
  /\ contracts = << >>
  /\ funnel_stages = StageCatalog
  /\ prospect_journey = << >>
  /\ now = [day |-> 1, tod |-> 0]
  /\ NoEngineActivity
  /\ result \in {[op |-> "benchmark_inputs", metrics |-> m] : m \in BenchmarkInputs}

\* benchmark_comparison = self._compare_to_benchmarks(overall_metrics), and
\* the overall_health_score the executive summary draws from it.
run_compare_to_benchmarks ==
  /\ result.op = "benchmark_inputs"
  /\ result' = [op |-> "compare_to_benchmarks", metrics |-> result.metrics,
                benchmarks |-> compare_to_benchmarks(result.metrics),
                overall_health_score |->
                  calculate_health_score(compare_to_benchmarks(result.metrics))]
  /\ UNCHANGED <<store, now, engines>>

NextBenchmarks == run_compare_to_benchmarks

SpecBenchmarks == InitBenchmarks /\ [][NextBenchmarks]_vars

(* ------------------- _generate_roi_optimization_plan ------------------- *)
\* self.efficiency_thresholds.
ExcellentRoiThreshold == 300
GoodRoiThreshold == 150
AcceptableRoiThreshold == 75
PoorRoiThreshold == 75

\* source_performance[source_performance['roi'] >= low] (next_threshold is
\* float('inf')).
RoiAtLeast(t, low) == SelectSeq(t, LAMBDA r : FracLe(Whole(low), r.roi))

\* The band with its upper limit taken in.
RoiWithin_UpToLimit(t, low, high) ==
  SelectSeq(t, LAMBDA r : FracLe(Whole(low), r.roi) /\ FracLe(r.roi, Whole(high)))

\* source_performance[(source_performance['roi'] >= threshold) &
\*                    (source_performance['roi'] < next_threshold)].
RoiWithin(t, low, high) ==
  SelectSeq(t, LAMBDA r : FracLe(Whole(low), r.roi) /\ FracLt(r.roi, Whole(high)))

RECURSIVE SumAcquisitionCost(_, _)
\* sources['total_acquisition_cost'].sum(), over the first k rows.
SumAcquisitionCost(t, k) ==
  IF k = 0 THEN 0 ELSE t[k].total_acquisition_cost + SumAcquisitionCost(t, k - 1)

\* One entry of current_roi_distribution.
RoiLevel(sources) ==
  [count |-> Len(sources),
   total_spend |-> SumAcquisitionCost(sources, Len(sources)),
   total_revenue |-> SumTotalRevenue(sources, Len(sources))]

EmptyPlan == [keys |-> {}]

\* _generate_roi_optimization_plan: {} for an empty frame; else the four
\* efficiency levels and the recommendations for the excellent and the poor
\* sources.
generate_roi_optimization_plan(source_performance) ==
  IF source_performance = << >> THEN EmptyPlan
  ELSE
    LET excellent_sources == RoiAtLeast(source_performance, ExcellentRoiThreshold)
        poor_sources == RoiBelow(source_performance, PoorRoiThreshold)
    IN [keys |-> {"current_roi_distribution", "optimization_recommendations",
                  "budget_reallocation", "expected_impact"},
        current_roi_distribution |->
          [level \in {"Excellent", "Good", "Acceptable", "Poor"} |->
             CASE level = "Excellent" ->
                    RoiLevel(RoiAtLeast(source_performance, ExcellentRoiThreshold))
               [] level = "Good" ->
                    RoiLevel(RoiWithin(source_performance, GoodRoiThreshold,
                                       ExcellentRoiThreshold))
               [] level = "Acceptable" ->
                    RoiLevel(RoiWithin(source_performance, AcceptableRoiThreshold,
                                       GoodRoiThreshold))
               [] level = "Poor" ->
                    RoiLevel(RoiBelow(source_performance, PoorRoiThreshold))],
        optimization_recommendations |->
          (IF excellent_sources # << >>
           THEN << [action |-> "SCALE_HIGH_PERFORMERS",
                    sources |-> SourceNamesOf(excellent_sources)] >>
           ELSE << >>)
          \o (IF poor_sources # << >>
              THEN << [action |-> "OPTIMIZE_OR_PAUSE",
                       sources |-> SourceNamesOf(poor_sources)] >>
              ELSE << >>)]

(* ------------- the ROI plan of a given performance table --------------- *)
MaxPlanSources == 3
PlanSpend == 100

\* The ROI of a source, in percent: on and beside the limits of the levels,
\* and that of a source without revenue.
PlanRois == {0 - 100, 74, 75, 149, 150, 299, 300}

\* Performance tables as get_lead_source_performance returns them, in the
\* order of the revenue: each source spent PlanSpend and earned what gives
\* its ROI.
PlanSources ==
  UNION {{[k \in 1..n |->
             [source_name |-> InsightSourceNames[k],
              total_acquisition_cost |-> PlanSpend,
              total_revenue |-> PlanSpend + (f[k] * PlanSpend) \div 100,
              roi |-> Whole(f[k])]] :
            f \in {g \in [1..n -> PlanRois] :
                     \A i, j \in 1..n : i < j => g[i] >= g[j]}} :
         n \in 0..MaxPlanSources}

\* The performance table is at hand.
InitRoiPlan ==
  /\ lead_sources = << >>
  /\ prospects = << >>
  /\ discovery_calls = << >>
  /\ proposals = << >>
  /\ contracts = << >>
  /\ funnel_stages = StageCatalog
  /\ prospect_journey = << >>
  /\ now = [day |-> 1, tod |-> 0]
  /\ NoEngineActivity
  /\ result \in {[op |-> "roi_plan_inputs", source_performance |-> t] : t \in PlanSources}

\* roi_optimization = self._generate_roi_optimization_plan(source_performance).
run_generate_roi_optimization_plan ==
  /\ result.op = "roi_plan_inputs"
  /\ result' = [op |-> "generate_roi_optimization_plan",
                source_performance |-> result.source_performance,
                plan |-> generate_roi_optimization_plan(result.source_performance)]
  /\ UNCHANGED <<store, now, engines>>

NextRoiPlan == run_generate_roi_optimization_plan

SpecRoiPlan == InitRoiPlan /\ [][NextRoiPlan]_vars

(* --------------------------- track_lead_source ------------------------- *)
\* The tables as connection c reads them: with its own uncommitted writes
\* while it holds the write lock.
LeadSourcesSeenBy(c) == IF db_lock.writer = c THEN db_lock.lead_sources ELSE lead_sources
ProspectsSeenBy(c) == IF db_lock.writer = c THEN db_lock.prospects ELSE prospects

\* A lookup that never finds the source.
LookupSource_Blind(rows, name) == 0

\* SELECT source_id FROM lead_sources WHERE source_name = ? and fetchone():
\* the first row of that name, 0 for None.
LookupSource(rows, name) ==
  LET ids == {i \in DOMAIN rows : rows[i].source_name = name}
  IN IF ids = {} THEN 0 ELSE CHOOSE i \in ids : \A j \in ids : i <= j

\* What a caller can see of a call's effect: the lead_source_id of the
\* prospects with the email and the number of lead sources with the name.
Observe(ls, ps, email, name) ==
  [lead_source_ids |-> {ps[i].lead_source_id : i \in {j \in DOMAIN ps : ps[j].email = email}},
   rows_named |-> Cardinality({i \in DOMAIN ls : ls[i].source_name = name})]

\* SQLite's file locks. A statement cannot read while another connection is
\* PENDING, cannot write while another holds RESERVED, and a COMMIT cannot
\* proceed while another connection holds SHARED.
ReadBlocked(c) == db_lock.writer \notin {0, c} /\ db_lock.pending /\ ~connections[c].shared
WriteBlocked(c) == db_lock.writer \notin {0, c}
CommitBlocked(c) == \E d \in Connections \ {c} : connections[d].shared

\* The write lock once c has it: taken over the committed tables if c did not
\* hold it yet.
Acquire(c) ==
  IF db_lock.writer = c THEN db_lock
  ELSE [writer |-> c, pending |-> FALSE, lead_sources |-> lead_sources, prospects |-> prospects]

\* The call as it is remembered once it has returned.
CallRecord(c, value, ls, ps) ==
  [conn |-> c, recording |-> TRUE,
   prospect_email |-> connections[c].prospect_email,
   source_name |-> connections[c].source_name,
   attribution_data |-> connections[c].attribution_data,
   returned |-> value, lead_sources |-> ls, prospects |-> ps,
   repeat |-> connections[c].repeat, base |-> connections[c].base]

\* return True / return False: the locals go, the connection's transaction
\* state stays as the statements left it (the handler never rolls back).
Return(c, value, in_tx, sh, ls, ps) ==
  /\ connections' = [connections EXCEPT ![c] =
        [IdleConnection EXCEPT !.in_transaction = in_tx, !.shared = sh,
                               !.closed = connections[c].closed]]
  /\ history' = IF history.recording THEN CallRecord(c, value, ls, ps) ELSE history
  /\ result' = [op |-> "track_lead_source", conn |-> c, returned |-> value]

\* track_lead_source(prospect_email, source_name, attribution_data) is called
\* on engine c.
track_lead_source_call(c, prospect_email, source_name, attribution_data) ==
  /\ connections[c].pc = "idle"
  /\ connections' = [connections EXCEPT ![c] =
        [@ EXCEPT !.pc = "select", !.prospect_email = prospect_email,
                  !.source_name = source_name, !.attribution_data = attribution_data,
                  !.repeat = /\ history.recording
                             /\ history.conn = c
                             /\ history.prospect_email = prospect_email
                             /\ history.source_name = source_name
                             /\ history.attribution_data = attribution_data
                             /\ history.lead_sources = lead_sources
                             /\ history.prospects = prospects,
                  !.base = IF history.recording
                           THEN Observe(lead_sources, prospects, prospect_email, source_name)
                           ELSE NoObservation]]
  /\ result' = NoResult
  /\ UNCHANGED <<store, now, db_lock, history>>

\* SELECT source_id ...; fetchone(). Inside a transaction left open by an
\* earlier failed call the read lock is kept.
track_lead_source_select(c) ==
  /\ connections[c].pc = "select"
  /\ IF connections[c].closed
     THEN \* self.conn.cursor() raises on a closed connection: return False
          /\ Return(c, FALSE, FALSE, FALSE, lead_sources, prospects)
          /\ UNCHANGED <<store, now, db_lock>>
     ELSE /\ ~ReadBlocked(c)
          /\ LET found == LookupSource(LeadSourcesSeenBy(c), connections[c].source_name)
             IN connections' = [connections EXCEPT ![c] =
                   [@ EXCEPT !.pc = IF found = 0 THEN "insert" ELSE "update",
                             !.source_id = found,
                             !.shared = connections[c].shared \/ connections[c].in_transaction]]
          /\ UNCHANGED <<store, now, db_lock, history, result>>

\* if not source_result: INSERT INTO lead_sources ...; source_id = lastrowid.
\* attribution_data.get raises on None before the statement runs; a category
\* outside the CHECK list fails the statement inside the opened transaction.
track_lead_source_insert(c) ==
  /\ connections[c].pc = "insert"
  /\ LET conn == connections[c]
         data == conn.attribution_data
         held == Acquire(c)
     IN IF ~data.given
        THEN /\ Return(c, FALSE, conn.in_transaction, conn.shared, lead_sources, prospects)
             /\ UNCHANGED db_lock
        ELSE /\ ~WriteBlocked(c)
             /\ IF \E k \in DOMAIN SourceCategories : SourceCategories[k] = data.category
                THEN /\ Len(held.lead_sources) < MaxSources
                     /\ db_lock' = [held EXCEPT !.lead_sources = Append(held.lead_sources,
                           [source_name |-> conn.source_name,
                            source_category |-> data.category,
                            cost_per_lead |-> data.cost_per_lead, is_active |-> 1])]
                     /\ connections' = [connections EXCEPT ![c] =
                           [@ EXCEPT !.pc = "update", !.in_transaction = TRUE,
                                     !.source_id = Len(held.lead_sources) + 1]]
                     /\ UNCHANGED <<history, result>>
                ELSE /\ db_lock' = held
                     /\ Return(c, FALSE, TRUE, conn.shared, lead_sources, prospects)
  /\ UNCHANGED <<store, now>>

\* UPDATE prospects SET lead_source_id = ?, updated_at = CURRENT_TIMESTAMP
\* WHERE email = ?.
track_lead_source_update(c) ==
  /\ connections[c].pc = "update"
  /\ ~WriteBlocked(c)
  /\ LET conn == connections[c]
         held == Acquire(c)
     IN db_lock' = [held EXCEPT !.prospects =
           [i \in DOMAIN held.prospects |->
              IF held.prospects[i].email = conn.prospect_email
              THEN [held.prospects[i] EXCEPT !.lead_source_id = conn.source_id,
                                             !.updated_at = now]
              ELSE held.prospects[i]]]
  /\ connections' = [connections EXCEPT ![c] =
        [@ EXCEPT !.pc = "commit", !.in_transaction = TRUE]]
  /\ UNCHANGED <<store, now, history, result>>

\* self.conn.commit(); return True.
track_lead_source_commit(c) ==
  /\ connections[c].pc = "commit"
  /\ ~CommitBlocked(c)
  /\ lead_sources' = db_lock.lead_sources
  /\ prospects' = db_lock.prospects
  /\ db_lock' = NoLock
  /\ Return(c, TRUE, FALSE, FALSE, db_lock.lead_sources, db_lock.prospects)
  /\ UNCHANGED <<discovery_calls, proposals, contracts, funnel_stages, prospect_journey, now>>

\* except Exception: return False, on sqlite3.OperationalError 'database is
\* locked' raised by the statement the call has come to. The transaction
\* stays open; a COMMIT that could not finish leaves its connection PENDING.
track_lead_source_locked(c) ==
  /\ LET conn == connections[c]
     IN CASE conn.pc = "select" ->
               /\ ReadBlocked(c)
               /\ Return(c, FALSE, conn.in_transaction, conn.shared, lead_sources, prospects)
               /\ UNCHANGED db_lock
          [] conn.pc = "insert" ->
               /\ conn.attribution_data.given
               /\ WriteBlocked(c)
               /\ Return(c, FALSE, TRUE, conn.shared, lead_sources, prospects)
               /\ UNCHANGED db_lock
          [] conn.pc = "update" ->
               /\ WriteBlocked(c)
               /\ Return(c, FALSE, TRUE, conn.shared, lead_sources, prospects)
               /\ UNCHANGED db_lock
          [] conn.pc = "commit" ->
               /\ CommitBlocked(c)
               /\ db_lock' = [db_lock EXCEPT !.pending = TRUE]
               /\ Return(c, FALSE, TRUE, conn.shared, lead_sources, prospects)
          [] OTHER -> FALSE
  /\ UNCHANGED <<store, now>>

(* ------------------ track_lead_source on a single engine --------------- *)
AllIdle == \A c \in Connections : connections[c].pc = "idle"

NextTrack ==
  \/ /\ AllIdle
     /\ InsertProspect(Len(prospects) + 1, 0, [day |-> 1, tod |-> 0])
  \/ \E e \in Emails, n \in DOMAIN SourceNames, d \in AttributionData :
        track_lead_source_call(1, e, SourceNames[n], d)
  \/ track_lead_source_select(1)
  \/ track_lead_source_insert(1)
  \/ track_lead_source_update(1)
  \/ track_lead_source_commit(1)

\* The calls on the engine are recorded.
InitTrack ==
  /\ lead_sources = << >>
  /\ prospects = << >>
  /\ discovery_calls = << >>
  /\ proposals = << >>
  /\ contracts = << >>
  /\ funnel_stages = StageCatalog
  /\ prospect_journey = << >>
  /\ now = [day |-> 1, tod |-> 0]
  /\ result = NoResult
  /\ connections = [c \in Connections |-> IdleConnection]
  /\ db_lock = NoLock
  /\ history = [NoCall EXCEPT !.recording = TRUE]

SpecTrack == InitTrack /\ [][NextTrack]_vars

(* ------------- track_lead_source on engines running together ----------- *)
NextRace ==
  \/ /\ db_lock.writer = 0
     /\ \A c \in Connections : ~connections[c].shared
     /\ InsertProspect(Len(prospects) + 1, 0, [day |-> 1, tod |-> 0])
  \/ \E c \in Connections, e \in Emails, n \in DOMAIN SourceNames :
        \E d \in {x \in AttributionData : x.given} :
           track_lead_source_call(c, e, SourceNames[n], d)
  \/ \E c \in Connections : track_lead_source_select(c)
  \/ \E c \in Connections : track_lead_source_insert(c)
  \/ \E c \in Connections : track_lead_source_update(c)
  \/ \E c \in Connections : track_lead_source_commit(c)
  \/ \E c \in Connections : track_lead_source_locked(c)

SpecRace == Init /\ [][NextRace]_vars

(* ------------------ analytics on a closed connection ------------------- *)
\* close_connection: self.conn.close().  What the connection had not
\* committed is rolled back and its locks are released.
close_connection(c) ==
  /\ connections[c].pc = "idle"
  /\ ~connections[c].closed
  /\ connections' = [connections EXCEPT ![c] = [IdleConnection EXCEPT !.closed = TRUE]]
  /\ db_lock' = IF db_lock.writer = c THEN NoLock ELSE db_lock
  /\ result' = NoResult
  /\ UNCHANGED <<store, now, history>>

\* The range that takes in every stored day.
FullRange == <<1, MaxDay + 1>>

NextFail ==
  \/ /\ Len(lead_sources) < Len(SourceNames)
     /\ InsertLeadSource(SourceNames[Len(lead_sources) + 1], "other", MoneyUnit)
  \/ \E s \in 0..Len(lead_sources) :
        InsertProspect(Len(prospects) + 1, s, [day |-> 1, tod |-> 0])
  \/ \E p \in 1..MaxProspects :
        /\ Len(contracts) < 1
        /\ InsertContract(p, MoneyUnit, 1, "active", [day |-> 1, tod |-> 0])
  \/ \E s \in 1..MaxStageVisited : InsertJourney(1, s)
  \/ close_connection(TheEngine)
  \/ \E dr \in DateRanges : calculate_conversion_rates(dr, 0)
  \/ \E dr \in DateRanges : get_lead_source_performance(dr)
  \/ \E dr \in DateRanges : identify_bottlenecks(dr)
  \/ \E dr \in DateRanges : calculate_revenue_attribution(dr, "first_touch")
  \/ \E dr \in DateRanges : engine_generate_comprehensive_insights(dr)
  \/ \E dr \in DateRanges : generator_generate_comprehensive_insights(dr)

SpecFail == Init /\ [][NextFail]_vars

(* ------------- the writes of track_lead_source beside a reader --------- *)
\* Another engine is in the middle of a query: between the execute of a
\* SELECT and the fetch of its last row its connection holds the read lock.
query_begin(c) ==
  /\ connections[c].pc = "idle"
  /\ ~connections[c].closed
  /\ ~ReadBlocked(c)
  /\ connections' = [connections EXCEPT ![c] = [@ EXCEPT !.pc = "query", !.shared = TRUE]]
  /\ UNCHANGED <<store, now, db_lock, history, result>>

query_end(c) ==
  /\ connections[c].pc = "query"
  /\ connections' = [connections EXCEPT ![c] =
        [@ EXCEPT !.pc = "idle", !.shared = connections[c].in_transaction]]
  /\ UNCHANGED <<store, now, db_lock, history, result>>

\* The data a caller of track_lead_source passes for a source of a listed category.
ListedData == [given |-> TRUE, category |-> "other", cost_per_lead |-> 0]

\* No statement of any engine is under way and nothing is uncommitted.
Quiet == db_lock.writer = 0 /\ \A c \in Connections : connections[c].pc = "idle"

NextFrame ==
  \/ /\ Quiet
     /\ InsertProspect(Len(prospects) + 1, 0, [day |-> 1, tod |-> 0])
  \/ \E e \in Emails, n \in DOMAIN SourceNames :
        track_lead_source_call(1, e, SourceNames[n], ListedData)
  \/ track_lead_source_select(1)
  \/ track_lead_source_insert(1)
  \/ track_lead_source_update(1)
  \/ track_lead_source_commit(1)
  \/ track_lead_source_locked(1)
  \/ query_begin(2)
  \/ query_end(2)
  \/ Quiet /\ calculate_conversion_rates(FullRange, 0)
  \/ Quiet /\ get_lead_source_performance(FullRange)
  \/ Quiet /\ identify_bottlenecks(FullRange)
  \/ Quiet /\ calculate_revenue_attribution(FullRange, "first_touch")
  \/ Quiet /\ engine_generate_comprehensive_insights(FullRange)
  \/ Quiet /\ generator_generate_comprehensive_insights(FullRange)

SpecFrame == Init /\ [][NextFrame]_vars

(* ======================= claims: conversion rates ===================== *)
IsConv == result.op = "calculate_conversion_rates"

\* x / y * 100 as a fraction, and exactly 0 for a zero denominator.
IsRateOf(rate, x, y) ==
  IF y = 0 THEN rate[1] = 0 ELSE FracEq(rate, Frac(x * 100, y))

\* C1: the four rates returned by calculate_conversion_rates are
\* discovery_scheduled / total_leads * 100, proposals_sent / discovery_completed * 100,
\* contracts_signed / proposals_sent * 100 and contracts_signed / total_leads * 100
\* of the counts it returns, and each is exactly 0 when its denominator is 0.
C1_RateFormulas ==
  IsConv =>
    /\ IsRateOf(result.lead_to_discovery_rate,
                result.discovery_calls_scheduled, result.total_leads)
    /\ IsRateOf(result.discovery_to_proposal_rate,
                result.proposals_sent, result.discovery_calls_completed)
    /\ IsRateOf(result.proposal_to_contract_rate,
                result.contracts_signed, result.proposals_sent)
    /\ IsRateOf(result.overall_conversion_rate,
                result.contracts_signed, result.total_leads)

\* C1 witness: two leads, one contract (overall rate 50) and a proposal with no
\* completed discovery call (zero denominator), under a source filter.
C1_Witness ==
  /\ IsConv
  /\ result.lead_source_id # 0
  /\ result.total_leads = 2
  /\ result.contracts_signed = 1
  /\ result.proposals_sent = 1
  /\ result.discovery_calls_completed = 0
  /\ result.overall_conversion_rate = Frac(100, 2)
  /\ result.discovery_to_proposal_rate = Whole(0)

InPercentRange(rate) == FracLe(Whole(0), rate) /\ FracLe(rate, Whole(100))

\* C2: every rate returned by calculate_conversion_rates lies in [0,100], also
\* when a prospect has a proposal without a completed discovery call or a
\* contract without a proposal.
C2_RatesInRange ==
  IsConv =>
    /\ InPercentRange(result.lead_to_discovery_rate)
    /\ InPercentRange(result.discovery_to_proposal_rate)
    /\ InPercentRange(result.proposal_to_contract_rate)
    /\ InPercentRange(result.overall_conversion_rate)

RECURSIVE SumOfContracts(_)
\* The sum of contract_value over a set of contract ids, each id once.
SumOfContracts(ids) ==
  IF ids = {} THEN 0
  ELSE LET i == CHOOSE x \in ids : TRUE
       IN contracts[i].contract_value + SumOfContracts(ids \ {i})

\* The contracts of the prospects the query selects.
ContractsInScope(date_range, lead_source_id) ==
  {i \in DOMAIN contracts :
     contracts[i].prospect_id \in FunnelProspects(date_range, lead_source_id)}

\* C3: total_revenue is the sum, and avg_deal_size the mean, of the values of
\* the contracts of the selected prospects, every contract counted exactly once
\* whatever its status and however many calls or proposals its prospect has.
C3_RevenueCountsEachContractOnce ==
  IsConv =>
    LET ids == ContractsInScope(result.date_range, result.lead_source_id)
    IN /\ result.total_revenue = SumOfContracts(ids)
       /\ IF ids = {} THEN result.avg_deal_size[1] = 0
          ELSE FracEq(result.avg_deal_size, Frac(SumOfContracts(ids), Cardinality(ids)))

\* start <= created_at <= end as instants, a date being its midnight, both
\* endpoints included.
WithinInclusive(ts, lo, hi) ==
  /\ lo <= ts.day
  /\ (ts.day < hi \/ (ts.day = hi /\ ts.tod = 0))

LeadsInWindow(date_range, lead_source_id) ==
  {p \in DOMAIN prospects :
     /\ WithinInclusive(prospects[p].created_at, date_range[1], date_range[2])
     /\ (lead_source_id # 0 => prospects[p].lead_source_id = lead_source_id)}

\* C4: a prospect is counted in total_leads exactly when start <= created_at <= end
\* (both endpoints included) and it matches the source filter; the four stage
\* counts are the numbers of those prospects with at least one call, completed
\* call, proposal and contract, each prospect counted once.
C4_CountsOverInclusiveWindow ==
  IsConv =>
    LET leads == LeadsInWindow(result.date_range, result.lead_source_id)
    IN /\ result.total_leads = Cardinality(leads)
       /\ result.discovery_calls_scheduled =
            Cardinality({p \in leads : CallsOf(p) # {}})
       /\ result.discovery_calls_completed =
            Cardinality({p \in leads :
              \E i \in CallsOf(p) : discovery_calls[i].call_status = "completed"})
       /\ result.proposals_sent = Cardinality({p \in leads : ProposalsOf(p) # {}})
       /\ result.contracts_signed = Cardinality({p \in leads : ContractsOf(p) # {}})

(* ========================= claims: bottlenecks ========================= *)
IsAnalysis == result.op = "analyze_stage"

\* conversion_rate < pct, with conversion_rate = exited / entered * 100 (0 if nothing entered).
ConversionBelow(row, pct) ==
  row.prospects_entered = 0 \/ 100 * row.prospects_exited < pct * row.prospects_entered

\* duration_factor > num / den, with duration_factor = avg / expected (1 if expected is 0).
DurationAbove(row, num, den) ==
  IF row.expected_duration_days = 0 THEN den > num
  ELSE row.avg_duration_days[1] * den
         > num * row.avg_duration_days[2] * row.expected_duration_days

\* stuck_factor > num / den, with stuck_factor = stuck / entered (0 if nothing entered).
StuckAbove(row, num, den) ==
  row.prospects_entered > 0 /\ row.prospects_stuck * den > num * row.prospects_entered

\* C5: severity is HIGH if conversion_rate < 50 or duration_factor > 2 or
\* stuck_factor > 0.3; otherwise MEDIUM if conversion_rate < 70 or
\* duration_factor > 1.5 or stuck_factor > 0.2; otherwise LOW.
C5_SeverityFirstMatch ==
  IsAnalysis =>
    LET row == result.row
        high == \/ ConversionBelow(row, 50) \/ DurationAbove(row, 2, 1)
                \/ StuckAbove(row, 3, 10)
        medium == \/ ConversionBelow(row, 70) \/ DurationAbove(row, 15, 10)
                  \/ StuckAbove(row, 2, 10)
    IN result.analysis.bottleneck_severity =
         (IF high THEN "HIGH" ELSE IF medium THEN "MEDIUM" ELSE "LOW")

\* C5 witness: every prospect that entered has left (conversion rate 100), none
\* is stuck, the average stay is more than twice the expected 7 days: HIGH.
C5_Witness ==
  /\ IsAnalysis
  /\ result.row.expected_duration_days = 7
  /\ result.row.prospects_entered = 2
  /\ result.row.prospects_exited = 2
  /\ result.row.prospects_stuck = 0
  /\ result.row.avg_duration_days = Frac(29, 2)
  /\ result.analysis.conversion_rate = Frac(200, 2)
  /\ result.analysis.bottleneck_severity = "HIGH"

IsBottlenecks == result.op = "identify_bottlenecks"

ActivePipelineStages ==
  {s \in DOMAIN funnel_stages :
     funnel_stages[s].is_active = 1 /\ funnel_stages[s].stage_name # "Lost/Disqualified"}

StageNamed(name) == CHOOSE s \in DOMAIN funnel_stages : funnel_stages[s].stage_name = name

\* C6: identify_bottlenecks returns exactly one record for every active stage
\* other than Lost/Disqualified (also one without journey rows), none for an
\* inactive stage, in increasing stage order.
C6_OneRecordPerActiveStage ==
  IsBottlenecks =>
    LET bs == result.bottlenecks
    IN /\ \A s \in ActivePipelineStages :
            Cardinality({k \in DOMAIN bs : bs[k].stage_name = funnel_stages[s].stage_name}) = 1
       /\ \A k \in DOMAIN bs : StageNamed(bs[k].stage_name) \in ActivePipelineStages
       /\ \A k \in DOMAIN bs : \A m \in DOMAIN bs :
            k < m => funnel_stages[StageNamed(bs[k].stage_name)].stage_order
                       < funnel_stages[StageNamed(bs[m].stage_name)].stage_order

(* ===================== claims: revenue attribution ==================== *)
IsAttribution == result.op = "calculate_revenue_attribution"

\* The active contracts signed within the inclusive range whose prospect has a
\* lead source.
AttributedContracts(date_range) ==
  {c \in DOMAIN contracts :
     /\ contracts[c].contract_status = "active"
     /\ WithinInclusive(contracts[c].signed_at, date_range[1], date_range[2])
     /\ prospects[contracts[c].prospect_id].lead_source_id \in DOMAIN lead_sources}

\* C7: calculate_revenue_attribution includes a contract exactly when it is
\* active and signed within the date range; every such contract is counted in
\* the group of its lead source's (source_name, source_category), whose
\* total_attributed_revenue, total_contracts and total_mrr are the sum of the
\* values, the number and the sum of the recurring revenue of those contracts;
\* the result is empty when there is no such contract.
C7_AttributionIncludesActiveInRange ==
  IsAttribution =>
    LET cs == AttributedContracts(result.date_range)
        t == result.table
        of(k) == {c \in cs : GroupKey(c) = <<t[k].source_name, t[k].source_category>>}
    IN /\ (cs = {}) = (t = << >>)
       /\ \A c \in cs : \E k \in DOMAIN t : c \in of(k)
       /\ \A k \in DOMAIN t :
            /\ of(k) # {}
            /\ t[k].total_attributed_revenue = SumValue(of(k))
            /\ t[k].total_contracts = Cardinality(of(k))
            /\ t[k].total_mrr = SumMrr(of(k))
       /\ \A k \in DOMAIN t : \A m \in DOMAIN t :
            (t[k].source_name = t[m].source_name
               /\ t[k].source_category = t[m].source_category) => k = m

RECURSIVE SumHundredths(_, _)
SumHundredths(t, k) ==
  IF k = 0 THEN 0 ELSE t[k].revenue_percentage.hundredths + SumHundredths(t, k - 1)

\* C8: whenever calculate_revenue_attribution returns a non-empty result, every
\* revenue_percentage is a number and together they sum to 100.00 within the
\* rounding error of half a hundredth per group, also when every attributed
\* contract has value 0.
C8_PercentagesSumTo100 ==
  (IsAttribution /\ result.table # << >>) =>
    LET t == result.table
        off == SumHundredths(t, Len(t)) - 10000
    IN /\ \A k \in DOMAIN t : ~ t[k].revenue_percentage.nan
       /\ 2 * off <= Len(t)
       /\ 2 * off >= 0 - Len(t)

(* ======================= claims: track_lead_source ==================== *)
\* The last call repeated the call before it: the same engine, the same
\* arguments, and nothing written to the store in between.
IsRepeatedCall == history.conn # 0 /\ history.repeat

\* C9: after two successive track_lead_source calls with identical arguments
\* on one engine, the lead_source_id of the prospect with the email and the
\* number of lead sources with the name are what they were after the first
\* call.
C9_TrackIdempotent ==
  IsRepeatedCall =>
    Observe(history.lead_sources, history.prospects,
            history.prospect_email, history.source_name) = history.base

\* C9 witness: the first call created the source and attached the prospect to
\* it, the second call returned True and left one source of that name.
C9_Witness ==
  /\ IsRepeatedCall
  /\ history.returned
  /\ history.base = [lead_source_ids |-> {1}, rows_named |-> 1]
  /\ Len(lead_sources) = 1
  /\ lead_sources[1].source_name = history.source_name
  /\ \E i \in DOMAIN prospects :
        prospects[i].email = history.prospect_email /\ prospects[i].lead_source_id = 1

\* C10: whatever track_lead_source calls have run, also from engines whose
\* lookup, insert, update and commit steps interleave, no two lead sources
\* have the same name.
C10_SourceNameUnique ==
  \A i \in DOMAIN lead_sources : \A j \in DOMAIN lead_sources :
     lead_sources[i].source_name = lead_sources[j].source_name => i = j

(* =================== claims: lead source performance ================== *)
IsPerformance == result.op = "get_lead_source_performance"

\* A metric that is the number 0.
IsZero(m) == ~m.null /\ FracEq(m.value, Whole(0))

\* C11: get_lead_source_performance returns one record for every active lead
\* source, none for an inactive one, and in the record of a source without
\* leads in the range every metric is exactly 0, none of them null.
C11_ZeroLeadSourcesAllZero ==
  IsPerformance =>
    LET t == result.table
    IN /\ \A s \in DOMAIN lead_sources :
            Cardinality({k \in DOMAIN t : t[k].source_id = s})
              = (IF lead_sources[s].is_active = 1 THEN 1 ELSE 0)
       /\ \A k \in DOMAIN t : t[k].total_leads = 0 =>
            /\ t[k].discovery_calls = 0
            /\ t[k].proposals_sent = 0
            /\ t[k].contracts_signed = 0
            /\ t[k].total_revenue = 0
            /\ FracEq(t[k].avg_deal_size, Whole(0))
            /\ IsZero(t[k].conversion_rate)
            /\ IsZero(t[k].revenue_per_lead)
            /\ t[k].total_acquisition_cost = 0
            /\ FracEq(t[k].roi, Whole(0))
            /\ FracEq(t[k].payback_period_months, Whole(0))

\* C16: in every record of get_lead_source_performance that has leads,
\* conversion_rate lies between 0 and 100, also when a prospect of the source
\* has more than one contract.
C16_SourceConversionRateInRange ==
  IsPerformance =>
    \A k \in DOMAIN result.table :
       LET rate == result.table[k].conversion_rate
       IN ~rate.null => FracLe(Whole(0), rate.value) /\ FracLe(rate.value, Whole(100))

(* ====================== claims: acquisition cost ====================== *)
\* The lead sources that produced at least one prospect created in the range.
ProducingSources(date_range) ==
  {prospects[p].lead_source_id :
     p \in {x \in DOMAIN prospects :
              /\ prospects[x].lead_source_id \in DOMAIN lead_sources
              /\ WithinInclusive(prospects[x].created_at, date_range[1], date_range[2])}}

RECURSIVE SumSourceCost(_)
SumSourceCost(S) ==
  IF S = {} THEN 0
  ELSE LET x == CHOOSE y \in S : TRUE
       IN lead_sources[x].cost_per_lead + SumSourceCost(S \ {x})

\* C15: cost_per_acquisition = cost_per_lead_avg * total_leads /
\* contracts_signed (0 without contracts), cost_per_lead_avg being the filtered
\* source's cost_per_lead under a filter and otherwise the mean cost_per_lead
\* of the distinct sources with a prospect in the range, each counted once.
C15_CostPerAcquisition ==
  IsConv =>
    LET S == ProducingSources(result.date_range)
        f == result.lead_source_id
        avg == IF f # 0
               THEN (IF f \in DOMAIN lead_sources
                     THEN Whole(lead_sources[f].cost_per_lead) ELSE Whole(0))
               ELSE IF S = {} THEN Whole(0)
                    ELSE Frac(SumSourceCost(S), Cardinality(S))
    IN IF result.contracts_signed = 0
       THEN FracEq(result.cost_per_acquisition, Whole(0))
       ELSE FracEq(result.cost_per_acquisition,
                   Frac(avg[1] * result.total_leads, avg[2] * result.contracts_signed))

\* LOW < MEDIUM < HIGH.
SeverityRank(severity) == CASE severity = "LOW" -> 1 [] severity = "MEDIUM" -> 2 [] severity = "HIGH" -> 3

\* The analysed row with another number of prospects that left the stage, all
\* else (entered, stuck, duration) the same.
WithExits(x) == [result.row EXCEPT !.prospects_exited = x]

\* C17: with prospects_entered, the duration factor and the stuck factor held
\* fixed, a row with fewer prospects_exited is classified at least as severe.
C17_SeverityMonotoneInExits ==
  IsAnalysis =>
    \A x \in 0..result.row.prospects_exited :
      SeverityRank(AnalyzeStage(WithExits(x)).bottleneck_severity)
        >= SeverityRank(result.analysis.bottleneck_severity)

\* A stage classified LOW that becomes MEDIUM and then HIGH as exits fall.
C17_Witness ==
  /\ IsAnalysis
  /\ result.analysis.bottleneck_severity = "LOW"
  /\ \E x, y \in 0..result.row.prospects_exited :
       /\ x < y
       /\ AnalyzeStage(WithExits(y)).bottleneck_severity = "MEDIUM"
       /\ AnalyzeStage(WithExits(x)).bottleneck_severity = "HIGH"

\* C14: a call is a function of its arguments and the store alone: a call of
\* identify_bottlenecks that follows a call with the same date range, the
\* store not having changed in between, returns the same list, whatever the
\* time on the wall clock at either call.
C14_SameCallSameResult ==
  [][(/\ IsBottlenecks
      /\ IsBottlenecks'
      /\ result'.date_range = result.date_range
      /\ store' = store)
     => result'.bottlenecks = result.bottlenecks]_vars

\* The texts each performance trigger adds.
ConversionTexts ==
  {"URGENT: Review and improve qualification criteria",
   "Analyze lost prospects for common patterns"}
DurationTexts ==
  {"Implement automated follow-up sequences",
   "Set clear timelines and next steps with prospects"}
StuckTexts ==
  {"Create re-engagement campaigns for stalled prospects",
   "Implement stage-specific nurturing content"}

\* 0 for a stage-specific text, then the trigger's place in the order.
TextRank(stage_name, text) ==
  IF \E k \in DOMAIN stage_recommendations(stage_name) :
       stage_recommendations(stage_name)[k] = text
  THEN 0
  ELSE IF text \in ConversionTexts THEN 1
  ELSE IF text \in DurationTexts THEN 2
  ELSE IF text \in StuckTexts THEN 3
  ELSE 4

\* C18: a recommendation list has at most 5 entries, the stage's own
\* recommendations come before every triggered one, a triggered one appears
\* only if its trigger holds (conversion_rate < 50, duration_factor > 2,
\* stuck_factor > 0.3), and the triggered ones keep the order of the triggers.
C18_RecommendationsBoundedAndOrdered ==
  IsAnalysis =>
    LET row == result.row
        recs == result.analysis.recommendations
        rank(k) == TextRank(row.stage_name, recs[k])
    IN /\ Len(recs) <= 5
       /\ \A k \in DOMAIN recs : rank(k) <= 3
       /\ \A i, j \in DOMAIN recs : i < j => rank(i) <= rank(j)
       /\ \A k \in DOMAIN recs :
            /\ rank(k) = 1 => ConversionBelow(row, 50)
            /\ rank(k) = 2 => DurationAbove(row, 2, 1)
            /\ rank(k) = 3 => StuckAbove(row, 3, 10)

\* All three triggers hold for a stage without recommendations of its own:
\* of the six triggered texts the list keeps five.
C18_Witness ==
  /\ IsAnalysis
  /\ result.row.stage_name = "Contract Signed"
  /\ ConversionBelow(result.row, 50)
  /\ DurationAbove(result.row, 2, 1)
  /\ StuckAbove(result.row, 3, 10)
  /\ Len(result.analysis.recommendations) = 5
  /\ result.analysis.recommendations[5] = "Create re-engagement campaigns for stalled prospects"

IsInsights == result.op = "generate_strategic_insights"

\* The positions of the insights of one type in the returned list.
InsightsOfType(t) == {k \in DOMAIN result.insights : result.insights[k].insight_type = t}

\* The insight of a type that occurs in the list.
InsightOfType(t) == result.insights[CHOOSE k \in InsightsOfType(t) : TRUE]

InsightTypes ==
  {"CONVERSION_OPTIMIZATION", "SCALING_OPPORTUNITY", "INVESTMENT_SCALING",
   "COST_OPTIMIZATION", "PROCESS_OPTIMIZATION", "VELOCITY_OPTIMIZATION",
   "VALUE_OPTIMIZATION"}

\* C20: every strategic insight type is emitted at most once and exactly under
\* its own condition, with its priority: CONVERSION_OPTIMIZATION iff the
\* overall conversion rate is below 5, SCALING_OPPORTUNITY iff it is above 12,
\* INVESTMENT_SCALING iff the top source has ROI above 200, COST_OPTIMIZATION
\* iff some source has ROI below 50 (naming at most 3 of them),
\* PROCESS_OPTIMIZATION iff some bottleneck is HIGH (about the first one),
\* VELOCITY_OPTIMIZATION iff the sales cycle is above 70 days, and
\* VALUE_OPTIMIZATION iff the deal size is below 40000 with attribution data.
C20_StrategicRulesFireUnderTheirConditions ==
  IsInsights =>
    LET m == result.inputs.metrics
        sp == result.inputs.source_performance
        bs == result.inputs.bottlenecks
        ra == result.inputs.revenue_attribution
        Has(t) == InsightsOfType(t) # {}
        poor == {k \in DOMAIN sp : sp[k].roi[1] < 50 * sp[k].roi[2]}
        high == {k \in DOMAIN bs : bs[k].bottleneck_severity = "HIGH"}
    IN /\ \A k \in DOMAIN result.insights : result.insights[k].insight_type \in InsightTypes
       /\ \A t \in InsightTypes : Cardinality(InsightsOfType(t)) <= 1
       /\ Has("CONVERSION_OPTIMIZATION")
            <=> m.overall_conversion_rate[1] < 5 * m.overall_conversion_rate[2]
       /\ Has("SCALING_OPPORTUNITY")
            <=> m.overall_conversion_rate[1] > 12 * m.overall_conversion_rate[2]
       /\ ~(Has("CONVERSION_OPTIMIZATION") /\ Has("SCALING_OPPORTUNITY"))
       /\ Has("INVESTMENT_SCALING")
            <=> (Len(sp) > 0 /\ sp[1].roi[1] > 200 * sp[1].roi[2])
       /\ Has("INVESTMENT_SCALING")
            => InsightOfType("INVESTMENT_SCALING").subject = << sp[1].source_name >>
       /\ Has("COST_OPTIMIZATION") <=> poor # {}
       /\ Has("COST_OPTIMIZATION")
            => LET named == InsightOfType("COST_OPTIMIZATION").subject
               IN /\ Len(named) <= 3
                  /\ \A i \in DOMAIN named : \E k \in poor : sp[k].source_name = named[i]
       /\ Has("PROCESS_OPTIMIZATION") <=> high # {}
       /\ Has("PROCESS_OPTIMIZATION")
            => LET first == CHOOSE k \in high : \A j \in high : k <= j
               IN InsightOfType("PROCESS_OPTIMIZATION").subject = << bs[first].stage_name >>
       /\ Has("VELOCITY_OPTIMIZATION")
            <=> m.avg_sales_cycle_days[1] > 70 * m.avg_sales_cycle_days[2]
       /\ Has("VALUE_OPTIMIZATION")
            <=> (m.avg_deal_size[1] < 40000 * m.avg_deal_size[2] /\ Len(ra) > 0)
       /\ \A t \in {"CONVERSION_OPTIMIZATION", "SCALING_OPPORTUNITY", "INVESTMENT_SCALING",
                    "PROCESS_OPTIMIZATION"} :
            Has(t) => InsightOfType(t).priority = "HIGH"
       /\ \A t \in {"COST_OPTIMIZATION", "VELOCITY_OPTIMIZATION", "VALUE_OPTIMIZATION"} :
            Has(t) => InsightOfType(t).priority = "MEDIUM"

\* Four sources with poor ROI of which three are named, a HIGH bottleneck
\* after a lower one, and the conversion, velocity and value rules firing.
C20_Witness ==
  /\ IsInsights
  /\ Len(result.inputs.source_performance) = 4
  /\ \A k \in 1..4 : result.inputs.source_performance[k].roi = Whole(49)
  /\ InsightsOfType("COST_OPTIMIZATION") # {}
  /\ Len(InsightOfType("COST_OPTIMIZATION").subject) = 3
  /\ InsightsOfType("INVESTMENT_SCALING") = {}
  /\ InsightsOfType("PROCESS_OPTIMIZATION") # {}
  /\ Len(result.inputs.bottlenecks) = 2
  /\ result.inputs.bottlenecks[1].bottleneck_severity # "HIGH"
  /\ InsightsOfType("CONVERSION_OPTIMIZATION") # {}
  /\ InsightsOfType("VELOCITY_OPTIMIZATION") # {}
  /\ InsightsOfType("VALUE_OPTIMIZATION") # {}

(* ================== claims: failures and frame effects ================= *)
\* The operations that only analyse.
AnalyticOps ==
  {"calculate_conversion_rates", "get_lead_source_performance", "identify_bottlenecks",
   "calculate_revenue_attribution", "engine.generate_comprehensive_insights",
   "generator.generate_comprehensive_insights"}

\* All 14 fields of the returned ConversionMetrics are 0.
AllFieldsZero ==
  /\ result.total_leads = 0
  /\ result.discovery_calls_scheduled = 0
  /\ result.discovery_calls_completed = 0
  /\ result.proposals_sent = 0
  /\ result.contracts_signed = 0
  /\ result.total_revenue = 0
  /\ \A f \in {result.avg_deal_size, result.avg_sales_cycle_days,
               result.lead_to_discovery_rate, result.discovery_to_proposal_rate,
               result.proposal_to_contract_rate, result.overall_conversion_rate,
               result.cost_per_acquisition, result.lifetime_value} : f[1] = 0

\* C12: an analytic operation whose query fails, as on a connection that
\* close_connection has closed, returns its zero or empty value: the metrics
\* with all 14 fields 0, an empty table, an empty list, and from either
\* generate_comprehensive_insights an empty bundle.
C12_FailureYieldsZeroOrEmpty ==
  Closed =>
    /\ result.op = "calculate_conversion_rates" => AllFieldsZero
    /\ result.op = "get_lead_source_performance" => result.table = << >>
    /\ result.op = "calculate_revenue_attribution" => result.table = << >>
    /\ result.op = "identify_bottlenecks" => result.bottlenecks = << >>
    /\ result.op = "engine.generate_comprehensive_insights" => result.bundle.keys = {}
    /\ result.op = "generator.generate_comprehensive_insights" => result.bundle.keys = {}

\* The last step was the return of a track_lead_source call.
TrackReturned == result.op # "track_lead_source" /\ result'.op = "track_lead_source"

\* C13: an analytic operation leaves the seven tables as they are, and a call
\* of track_lead_source changes nothing but this: at most one row more in
\* lead_sources, and lead_source_id and updated_at of the prospects that have
\* the call's email.
C13_OnlyTrackLeadSourceWrites ==
  [][/\ result'.op \in AnalyticOps => store' = store
     /\ TrackReturned =>
          /\ Len(lead_sources') <= Len(lead_sources) + 1
          /\ \A s \in DOMAIN lead_sources :
               s \in DOMAIN lead_sources' /\ lead_sources'[s] = lead_sources[s]
          /\ DOMAIN prospects' = DOMAIN prospects
          /\ \A p \in DOMAIN prospects :
               /\ prospects'[p] = [prospects[p] EXCEPT
                                     !.lead_source_id = prospects'[p].lead_source_id,
                                     !.updated_at = prospects'[p].updated_at]
               /\ prospects'[p] # prospects[p]
                    => prospects[p].email = connections[result'.conn].prospect_email
          /\ UNCHANGED <<discovery_calls, proposals, contracts, funnel_stages,
                         prospect_journey>>]_vars

(* ================= claims: order of the performance list =============== *)
\* C22: the list get_lead_source_performance returns is sorted by
\* total_revenue descending and, among equal revenues, by total_leads
\* descending.
C22_PerformanceSortedByRevenueThenLeads ==
  IsPerformance =>
    \A k \in DOMAIN result.table : k + 1 \in DOMAIN result.table =>
       LET a == result.table[k]
           b == result.table[k + 1]
       IN \/ a.total_revenue > b.total_revenue
          \/ (a.total_revenue = b.total_revenue /\ a.total_leads >= b.total_leads)

\* Two sources of equal revenue: the one inserted second comes first for
\* having more leads.
C22_Witness ==
  /\ IsPerformance
  /\ Len(result.table) = 2
  /\ result.table[1].source_id = 2
  /\ result.table[1].total_revenue = result.table[2].total_revenue
  /\ result.table[1].total_leads > result.table[2].total_leads

(* ================= claims: a stage nobody entered ====================== *)
\* C28: a stage into which no prospect entered during the date range
\* (prospects_entered = 0) is never classified HIGH and gets no 'URGENT'
\* recommendation.
C28_EmptyStageNeverHigh ==
  (IsAnalysis /\ result.row.prospects_entered = 0) =>
    /\ result.analysis.bottleneck_severity # "HIGH"
    /\ \A k \in DOMAIN result.analysis.recommendations :
         result.analysis.recommendations[k]
           # "URGENT: Review and improve qualification criteria"

(* ================= claims: insights without data ======================= *)
IsGeneratorInsights == result.op = "generator.generate_comprehensive_insights"

\* The metrics the generator got from calculate_conversion_rates are the
\* all-zero record.
NoDataMetrics ==
  LET m == result.overall_metrics
  IN /\ m.total_leads = 0
     /\ m.discovery_calls_scheduled = 0
     /\ m.discovery_calls_completed = 0
     /\ m.proposals_sent = 0
     /\ m.contracts_signed = 0
     /\ m.total_revenue = 0
     /\ \A f \in {m.avg_deal_size, m.avg_sales_cycle_days,
                  m.lead_to_discovery_rate, m.discovery_to_proposal_rate,
                  m.proposal_to_contract_rate, m.overall_conversion_rate,
                  m.cost_per_acquisition, m.lifetime_value} : FracEq(f, Whole(0))

\* C29: when calculate_conversion_rates yields the all-zero record, the
\* generator emits no HIGH CONVERSION_OPTIMIZATION insight and no
\* PERFORMANCE_RISK entry.
C29_NoDataIsNoCriticalProblem ==
  (IsGeneratorInsights /\ NoDataMetrics) =>
    /\ \A k \in DOMAIN result.bundle.strategic_insights :
         ~ /\ result.bundle.strategic_insights[k].insight_type = "CONVERSION_OPTIMIZATION"
           /\ result.bundle.strategic_insights[k].priority = "HIGH"
    /\ \A k \in DOMAIN result.bundle.risk_analysis :
         result.bundle.risk_analysis[k].type # "PERFORMANCE_RISK"

(* ================= claims: a failed track_lead_source ================== *)
\* C26: when track_lead_source returns False the persisted store is as it was
\* before the call and the call leaves no pending write behind: no LeadSource
\* row it inserted stays uncommitted on the engine's connection, where the
\* commit of a later successful call would persist it.
C26_FailedCallLeavesNothingPending ==
  [][(TrackReturned /\ ~result'.returned) =>
       /\ store' = store
       /\ ~ /\ db_lock'.writer = result'.conn
            /\ Len(db_lock'.lead_sources) > Len(lead_sources')]_vars

\* C27: track_lead_source returns True only if a prospect with the given
\* email exists and, after the call, that prospect's lead_source_id refers to
\* a LeadSource row named source_name; when no prospect has the email, no
\* LeadSource row is created and no prospect row changes.
C27_TrueOnlyForKnownProspect ==
  [][TrackReturned =>
       LET email == connections[result'.conn].prospect_email
           name == connections[result'.conn].source_name
           known == {p \in DOMAIN prospects : prospects[p].email = email}
       IN /\ result'.returned =>
               /\ known # {}
               /\ \A p \in known :
                    /\ prospects'[p].lead_source_id \in DOMAIN lead_sources'
                    /\ lead_sources'[prospects'[p].lead_source_id].source_name = name
          /\ known = {} => (lead_sources' = lead_sources /\ prospects' = prospects)]_vars

(* ================= claims: the order of the counts ===================== *)
\* C30: the counts calculate_conversion_rates returns satisfy
\* discovery_calls_completed <= discovery_calls_scheduled <= total_leads,
\* proposals_sent <= total_leads and contracts_signed <= total_leads; for
\* every stage identify_bottlenecks analyses, prospects_exited and
\* prospects_stuck are at most prospects_entered, so that the returned
\* conversion_rate lies in [0, 100] and the stuck prospects are at most those
\* that entered.
C30_CountsOrdered ==
  /\ IsConv =>
       /\ result.discovery_calls_completed <= result.discovery_calls_scheduled
       /\ result.discovery_calls_scheduled <= result.total_leads
       /\ result.proposals_sent <= result.total_leads
       /\ result.contracts_signed <= result.total_leads
  /\ (IsBottlenecks /\ ~Closed) =>
       LET order == OrderByStageOrder(QueriedStages)
       IN /\ Len(result.bottlenecks) = Len(order)
          /\ \A k \in DOMAIN order :
               LET row == StageQueryRow(order[k], result.date_range)
                   b == result.bottlenecks[k]
               IN /\ row.prospects_exited <= row.prospects_entered
                  /\ row.prospects_stuck <= row.prospects_entered
                  /\ b.stage_name = row.stage_name
                  /\ FracLe(Whole(0), b.conversion_rate)
                  /\ FracLe(b.conversion_rate, Whole(100))
                  /\ b.prospects_stuck <= row.prospects_entered

\* Two prospects entered a stage; one has left it and the other is stuck in it.
C30_Witness ==
  /\ IsBottlenecks
  /\ \E s \in QueriedStages :
       LET row == StageQueryRow(s, result.date_range)
       IN /\ row.prospects_entered = 2
          /\ row.prospects_exited = 1
          /\ row.prospects_stuck = 1
  /\ \E k \in DOMAIN result.bottlenecks :
       /\ FracEq(result.bottlenecks[k].conversion_rate, Whole(50))
       /\ result.bottlenecks[k].prospects_stuck = 1

(* ================= claims: benchmarks and health score ================= *)
IsBenchmarks == result.op = "compare_to_benchmarks"

\* The comparisons returned for the metric of one name.
ComparisonsNamed(name) ==
  {k \in DOMAIN result.benchmarks : result.benchmarks[k].metric_name = name}

\* value / benchmark >= num / den (benchmark / value for the sales cycle), for
\* a value that is not 0 and a positive benchmark.
RatioAtLeast(name, value, benchmark, num, den) ==
  IF name = "Average Sales Cycle"
  THEN value[1] > 0 /\ benchmark[1] * value[2] * den >= num * benchmark[2] * value[1]
  ELSE value[1] * benchmark[2] * den >= num * value[2] * benchmark[1]

RECURSIVE RankSum(_)
\* The sum of the percentile ranks at a set of positions of the returned list.
RankSum(ks) ==
  IF ks = {} THEN 0
  ELSE LET k == CHOOSE x \in ks : TRUE
       IN result.benchmarks[k].percentile_rank + RankSum(ks \ {k})

\* C21: the health score is the mean of the percentile ranks of the computed
\* comparisons cut to an integer, lies in [0, 100], and is 50 when there is no
\* comparison, which is when all six metrics are 0.
C21_HealthScoreIsTruncatedMean ==
  IsBenchmarks =>
    LET n == Len(result.benchmarks)
        score == result.overall_health_score
    IN /\ score \in 0..100
       /\ (n = 0) <=> (\A k \in DOMAIN benchmark_metrics :
                         result.metrics[benchmark_metrics[k].field][1] = 0)
       /\ n = 0 => score = 50
       /\ n > 0 => /\ score * n <= RankSum(DOMAIN result.benchmarks)
                   /\ RankSum(DOMAIN result.benchmarks) < (score + 1) * n

\* Three comparisons of ranks 95, 80 and 10, of mean 61.67: the score is 61.
C21_Witness ==
  /\ IsBenchmarks
  /\ Len(result.benchmarks) = 3
  /\ {result.benchmarks[k].percentile_rank : k \in DOMAIN result.benchmarks} = {95, 80, 10}
  /\ result.overall_health_score = 61

(* ================= claims: the 30/60/90-day action plan ================ *)
IsActionPlan == result.op = "create_30_60_90_action_plan"

\* The insights of one priority, in the order of the list.
OfPriority(insights, priority) == SelectSeq(insights, LAMBDA i : i.priority = priority)

RECURSIVE FirstTwoActionsOf(_)
\* The first two recommended actions of each insight, insight after insight.
FirstTwoActionsOf(insights) ==
  IF insights = << >> THEN << >>
  ELSE SubSeq(insights[1].recommended_actions, 1,
              IF Len(insights[1].recommended_actions) < 2
              THEN Len(insights[1].recommended_actions) ELSE 2)
       \o FirstTwoActionsOf(Tail(insights))

\* C23: the first 2 HIGH insights go to 30_days, the remaining HIGH insights
\* followed by the first MEDIUM insight to 60_days, the remaining MEDIUM
\* insights to 90_days, and in each of the three windows every insight
\* contributes its first two recommended actions, in order.
C23_ActionPlanWindows ==
  IsActionPlan =>
    LET high == OfPriority(result.insights, "HIGH")
        medium == OfPriority(result.insights, "MEDIUM")
        first_high == SubSeq(high, 1, IF Len(high) < 2 THEN Len(high) ELSE 2)
        rest_high == SubSeq(high, 3, Len(high))
        first_medium == SubSeq(medium, 1, IF Len(medium) < 1 THEN Len(medium) ELSE 1)
        rest_medium == SubSeq(medium, 2, Len(medium))
    IN /\ result.action_plan["30_days"] = FirstTwoActionsOf(first_high)
       /\ result.action_plan["60_days"] = FirstTwoActionsOf(rest_high \o first_medium)
       /\ result.action_plan["90_days"] = FirstTwoActionsOf(rest_medium)

RECURSIVE FirstActionOf(_)
\* The first recommended action of each insight, insight after insight.
FirstActionOf(insights) ==
  IF insights = << >> THEN << >>
  ELSE SubSeq(insights[1].recommended_actions, 1,
              IF Len(insights[1].recommended_actions) < 1 THEN 0 ELSE 1)
       \o FirstActionOf(Tail(insights))

\* C23, amended: the first 2 HIGH insights go to 30_days, the remaining HIGH
\* insights followed by the first MEDIUM insight to 60_days, the remaining
\* MEDIUM insights to 90_days; in 30_days and 60_days every insight
\* contributes its first two recommended actions, in 90_days only its first.
C23_ActionPlanWindows_Amended ==
  IsActionPlan =>
    LET high == OfPriority(result.insights, "HIGH")
        medium == OfPriority(result.insights, "MEDIUM")
        first_high == SubSeq(high, 1, IF Len(high) < 2 THEN Len(high) ELSE 2)
        rest_high == SubSeq(high, 3, Len(high))
        first_medium == SubSeq(medium, 1, IF Len(medium) < 1 THEN Len(medium) ELSE 1)
        rest_medium == SubSeq(medium, 2, Len(medium))
    IN /\ DOMAIN result.action_plan = {"30_days", "60_days", "90_days"}
       /\ result.action_plan["30_days"] = FirstTwoActionsOf(first_high)
       /\ result.action_plan["60_days"] = FirstTwoActionsOf(rest_high \o first_medium)
       /\ result.action_plan["90_days"] = FirstActionOf(rest_medium)

\* Three HIGH and three MEDIUM insights: four actions in 30_days, four in
\* 60_days (the third HIGH and the first MEDIUM insight) and two in 90_days.
C23_Witness ==
  /\ IsActionPlan
  /\ Len(OfPriority(result.insights, "HIGH")) = 3
  /\ Len(OfPriority(result.insights, "MEDIUM")) = 3
  /\ Len(result.action_plan["30_days"]) = 4
  /\ Len(result.action_plan["60_days"]) = 4
  /\ Len(result.action_plan["90_days"]) = 2

(* ================= claims: the ROI optimization plan =================== *)
IsRoiPlan == result.op = "generate_roi_optimization_plan"

\* The places in the table of the sources with low <= ROI < high.
RoiBand(low, high) ==
  {k \in DOMAIN result.source_performance :
     /\ FracLe(Whole(low), result.source_performance[k].roi)
     /\ FracLt(result.source_performance[k].roi, Whole(high))}

\* The places of the sources with ROI >= low, and of those with ROI < high.
RoiFrom(low) ==
  {k \in DOMAIN result.source_performance :
     FracLe(Whole(low), result.source_performance[k].roi)}
RoiUnder(high) ==
  {k \in DOMAIN result.source_performance :
     FracLt(result.source_performance[k].roi, Whole(high))}

\* The names at a set of places of the table, in the order of the table.
NamesAt(ks) ==
  SourceNamesOf(SelectSeq(result.source_performance,
                          LAMBDA r : \E k \in ks : result.source_performance[k] = r))

\* The sources a recommendation of the plan lists (none if it is absent).
ListedBy(action) ==
  LET found == {k \in DOMAIN result.plan.optimization_recommendations :
                  result.plan.optimization_recommendations[k].action = action}
  IN IF found = {} THEN << >>
     ELSE result.plan.optimization_recommendations[CHOOSE k \in found : TRUE].sources

\* C25: for a non-empty table the levels Excellent (ROI >= 300), Good
\* (150 <= ROI < 300), Acceptable (75 <= ROI < 150) and Poor (ROI < 75) split
\* the sources: each source is in exactly one, the four counts add up to the
\* number of sources, SCALE_HIGH_PERFORMERS lists exactly the Excellent
\* sources and OPTIMIZE_OR_PAUSE exactly the Poor ones.
C25_RoiLevelsPartitionSources ==
  (IsRoiPlan /\ result.source_performance # << >>) =>
    LET levels == result.plan.current_roi_distribution
        excellent == RoiFrom(300)
        good == RoiBand(150, 300)
        acceptable == RoiBand(75, 150)
        poor == RoiUnder(75)
    IN /\ \A k \in DOMAIN result.source_performance :
            Cardinality({b \in {excellent, good, acceptable, poor} : k \in b}) = 1
       /\ levels["Excellent"].count = Cardinality(excellent)
       /\ levels["Good"].count = Cardinality(good)
       /\ levels["Acceptable"].count = Cardinality(acceptable)
       /\ levels["Poor"].count = Cardinality(poor)
       /\ levels["Excellent"].count + levels["Good"].count
            + levels["Acceptable"].count + levels["Poor"].count
          = Len(result.source_performance)
       /\ ListedBy("SCALE_HIGH_PERFORMERS") = NamesAt(excellent)
       /\ ListedBy("OPTIMIZE_OR_PAUSE") = NamesAt(poor)
       /\ \A k \in DOMAIN result.plan.optimization_recommendations :
            /\ result.plan.optimization_recommendations[k].action
                 \in {"SCALE_HIGH_PERFORMERS", "OPTIMIZE_OR_PAUSE"}
            /\ \A j \in DOMAIN result.plan.optimization_recommendations :
                 result.plan.optimization_recommendations[j].action
                   = result.plan.optimization_recommendations[k].action => j = k

\* Three sources right on the limits 300, 150 and 75: one Excellent, one Good,
\* one Acceptable, none Poor.
C25_Witness ==
  /\ IsRoiPlan
  /\ Len(result.source_performance) = 3
  /\ FracEq(result.source_performance[1].roi, Whole(300))
  /\ FracEq(result.source_performance[2].roi, Whole(150))
  /\ FracEq(result.source_performance[3].roi, Whole(75))
  /\ result.plan.current_roi_distribution["Excellent"].count = 1
  /\ result.plan.current_roi_distribution["Good"].count = 1
  /\ result.plan.current_roi_distribution["Acceptable"].count = 1
  /\ result.plan.current_roi_distribution["Poor"].count = 0
  /\ ListedBy("SCALE_HIGH_PERFORMERS") = << "Alpha" >>

====
